---- MODULE Spec2Model ----
(***************************************************************************)
(* Model of the MetaSPN activity data lake (src/metaspn/repo):             *)
(*   - the event log written by RepoWriter and scanned by RepoStructure /  *)
(*     RepoReader,                                                         *)
(*   - the manifest index of ManifestManager with its by_platform and      *)
(*     by_date shard files,                                                *)
(*   - the query facade ActivityLoader,                                    *)
(*   - the versioned EnhancementStore (latest file + history directory).   *)
(*                                                                         *)
(* The state is what is on disk.  Every ManifestManager / ActivityLoader   *)
(* is taken freshly constructed for each operation, so its in-memory       *)
(* manifest is the one on disk.  The repository uses the standard layout   *)
(* (.metaspn/profile.json present, no meta.json).                          *)
(***************************************************************************)
EXTENDS Integers, Sequences, FiniteSets, TLC

VARIABLES
    files,           \* event log: path -> file content, for the files that exist
    manifest,        \* artifacts/indexes/manifest.json
    platform_index,  \* artifacts/indexes/by_platform/{platform}.json
    date_index,      \* artifacts/indexes/by_date/{YYYY-MM}.json
    written,         \* history: the activity records written by RepoWriter so far
    nwrites,         \* history: how many records RepoWriter wrote so far
    last,            \* history: the operation that ran last, and its arguments
    since_build      \* history: whether the manifest is the one of a full build,
                     \* and what was written to the event log after that build

VARIABLES
    latest,          \* artifacts/enhancements/{kind}/latest.jsonl
    history,         \* artifacts/enhancements/{kind}/history/*.jsonl
    enh_last,        \* history: the store operation that ran last
    archived,        \* history: the copies save_with_history made, in order
    nops             \* history: how many store operations ran

logVars == <<files, manifest, platform_index, date_index, written, nwrites,
            last, since_build>>

VARIABLES
    jsonl,           \* the lines of one .jsonl event-log file
    appended,        \* history: the activities append_jsonl wrote to it in full
    foreign,         \* history: some line of it was not written by append_jsonl
    loaded,          \* the outcome of the last RepoReader._load_file of it
    restored         \* the outcome of the last serialization round trip

VARIABLES
    disk,            \* latest.jsonl and its temp file: the names and their inodes
    mfile,           \* manifest.json while _save_manifest writes it in place
    wr,              \* the process that writes: where it is in write_jsonl / _save_manifest
    rd,              \* the process that reads: where it is in its load
    committed        \* history: the last complete content of each file

enhVars == <<latest, history, enh_last, archived, nops>>

ioVars == <<disk, mfile, wr, rd, committed>>

VARIABLES
    state,           \* the LifecycleState at hand
    given,           \* history: the state the last advance call was given
    trail            \* history: the phases since the state was made, one per advance

lifeVars == <<state, given, trail>>

VARIABLES
    run,             \* the process that runs: what its hash() gives
    persisted,       \* the persisted record that is parsed
    parsed,          \* what _parse_activity made of it the last time
    seen             \* history: the activity ids the parses of the record gave

parseVars == <<run, persisted, parsed, seen>>

VARIABLES
    tree,            \* what is on disk at the repository path, entry by entry
    components,      \* the data-lake components constructed on the path
    call             \* history: the last call, what it raised and the tree before it

repoVars == <<tree, components, call>>

codecVars == <<jsonl, appended, foreign, loaded, restored>>

vars == <<logVars, enhVars, codecVars, ioVars, lifeVars, parseVars, repoVars>>

(***************************************************************************)
(* Bounds of the model.                                                    *)
(***************************************************************************)
MaxLog == 2      \* records RepoWriter writes to the event log
MaxBatch == 1    \* activities handed to one update_incremental call
MaxEnhOps == 3   \* operations run on the enhancement store
MaxLines == 3    \* writes to the .jsonl file whose lines are followed
MaxCalls == 2    \* calls of write_jsonl and _save_manifest that are followed
MaxLimit == 2    \* the largest limit handed to query
MaxAdvance == 3  \* advance calls on one state that are followed
MaxParses == 3   \* parses of one persisted record that are followed

(***************************************************************************)
(* Values.                                                                 *)
(***************************************************************************)
None == "None"

\* Optional[datetime] = None for start_date / end_date; timestamps are >= 1
NoDate == 0

\* The activities the producers hand to the writer.  Timestamps are whole
\* seconds on an abstract time line.  The empty activity_id is what a caller
\* supplies with activity_id = "" (to_dict / from_dict keep it: only a missing
\* id is generated).
Activities ==
    { [activity_id |-> "twitter_1", platform |-> "twitter",
       activity_type |-> "create",  timestamp |-> 3, content |-> "hello",
       raw_data |-> "{tweet_id: 1}"],
      [activity_id |-> "twitter_2", platform |-> "twitter",
       activity_type |-> "create",  timestamp |-> 3, content |-> "",
       raw_data |-> "{}"],
      [activity_id |-> "podcast_1", platform |-> "podcast",
       activity_type |-> "consume", timestamp |-> 1, content |-> "talk",
       raw_data |-> "{}"],
      [activity_id |-> "",          platform |-> "twitter",
       activity_type |-> "consume", timestamp |-> 2, content |-> "liked",
       raw_data |-> "{}"] }

Platforms == {"twitter", "podcast", "podcasts"}
ActivityTypes == {"create", "consume"}
Timestamps == {a.timestamp : a \in Activities}

\* activity_id[:8]
First8(s) ==
    CASE s = "twitter_1" -> "twitter_"
      [] s = "twitter_2" -> "twitter_"
      [] s = "podcast_1" -> "podcast_"
      [] s = "unknown"   -> "unknown"
      [] OTHER           -> s

\* timestamp.strftime("%Y-%m") and ("%Y") on the abstract time line:
\* two seconds to the month, two months to the year
Month(ts) == ts \div 2
Year(ts) == ts \div 4

(***************************************************************************)
(* Paths.  A path is root/dir/name; name is {stamp}_{stem}{suffix} for the *)
(* files save_activity names after a timestamp, and {stem}{suffix} (stamp  *)
(* 0) for the others.                                                      *)
(***************************************************************************)
Path(root, dir, stamp, stem, suffix) ==
    [root |-> root, dir |-> dir, stamp |-> stamp, stem |-> stem, suffix |-> suffix]

\* file_path="" of an entry made by update_incremental
NoPath == Path("", "", 0, "", "")

\* Position of a string among the strings of the model, in string order.
StrRank(s) ==
    CASE s = ""                  -> 0
      [] s = ".json"             -> 1
      [] s = ".jsonl"            -> 2
      [] s = "activities"        -> 3
      [] s = "algorithm_update"  -> 4
      [] s = "artifacts"         -> 5
      [] s = "blog"              -> 6
      [] s = "blogs"             -> 7
      [] s = "books"             -> 8
      [] s = "engagement-events" -> 9
      [] s = "episodes"          -> 10
      [] s = "listening-events"  -> 11
      [] s = "podcast"           -> 12
      [] s = "podcast_"          -> 13
      [] s = "podcasts"          -> 14
      [] s = "posts"             -> 15
      [] s = "reading-events"    -> 16
      [] s = "sources"           -> 17
      [] s = "tweets"            -> 18
      [] s = "twitter"           -> 19
      [] s = "twitter_"          -> 20
      [] s = "unknown"           -> 21
      [] s = "videos"            -> 22
      [] s = "youtube"           -> 23

\* A name that starts with the digits of a timestamp sorts before every name
\* that starts with a letter.
PathKey(p) ==
    << StrRank(p.root), StrRank(p.dir), IF p.stamp > 0 THEN 0 ELSE 1,
       p.stamp, StrRank(p.stem), StrRank(p.suffix) >>

Range(s) == {s[i] : i \in 1..Len(s)}

LexLess(k1, k2) ==
    \E i \in 1..Len(k1) :
        /\ k1[i] < k2[i]
        /\ \A j \in 1..(i - 1) : k1[j] = k2[j]

\* sorted(files)
RECURSIVE SortPaths(_)
SortPaths(S) ==
    IF S = {} THEN <<>>
    ELSE LET m == CHOOSE p \in S : \A q \in S \ {p} : LexLess(PathKey(p), PathKey(q))
         IN  <<m>> \o SortPaths(S \ {m})

(***************************************************************************)
(* RepoStructure.                                                          *)
(***************************************************************************)
SOURCE_PLATFORMS == {"podcasts", "books", "blogs", "twitter"}
ARTIFACT_PLATFORMS == {"twitter", "podcast", "blog", "youtube"}

get_source_file(platform) ==
    Path("sources", platform, 0,
         CASE platform = "podcasts" -> "listening-events"
           [] platform = "books"    -> "reading-events"
           [] platform = "blogs"    -> "reading-events"
           [] platform = "twitter"  -> "engagement-events",
         ".jsonl")

get_artifact_file(platform) ==
    Path("artifacts", platform, 0,
         CASE platform = "twitter" -> "tweets"
           [] platform = "podcast" -> "episodes"
           [] platform = "blog"    -> "posts"
           [] platform = "youtube" -> "videos",
         ".jsonl")

\* mapping.get(artifact_platform): None for youtube and for unknown names
_artifact_to_source_platform(artifact_platform) ==
    CASE artifact_platform = "twitter" -> "twitter"
      [] artifact_platform = "podcast" -> "podcasts"
      [] artifact_platform = "blog"    -> "blogs"
      [] OTHER                         -> None

\* source_dir.glob("*.jsonl") + glob("*.json") of one directory
Glob(fs, root, dir) == {p \in DOMAIN fs : p.root = root /\ p.dir = dir}

get_activity_files(fs, platform, activity_type) ==
    LET search_sources == activity_type = None \/ activity_type = "consume"
        search_artifacts == activity_type = None \/ activity_type = "create"
        src ==
            IF ~search_sources THEN {}
            ELSE IF platform # None
                 THEN LET source_platform == _artifact_to_source_platform(platform)
                      IN  IF source_platform # None
                          THEN Glob(fs, "sources", source_platform)
                          ELSE {}
                 ELSE UNION {Glob(fs, "sources", sp) : sp \in SOURCE_PLATFORMS}
        art ==
            IF ~search_artifacts THEN {}
            ELSE IF platform # None
                 THEN Glob(fs, "artifacts", platform)
                 ELSE UNION {Glob(fs, "artifacts", ap) : ap \in ARTIFACT_PLATFORMS}
    IN  SortPaths(src \cup art)

(***************************************************************************)
(* Record codec.                                                           *)
(***************************************************************************)
NoActivity == [activity_id |-> None, platform |-> None, activity_type |-> None,
               timestamp |-> 0, content |-> None, raw_data |-> None]

\* datetime.isoformat: the string that writes the time.  A JSON value is its
\* type and what it spells.
isoformat(timestamp) == [type |-> "str", iso |-> timestamp]

\* datetime.fromisoformat of a string that spells a time
fromisoformat(value) == value.iso

\* What datetime.fromisoformat raises: TypeError for a value that is not a
\* string, ValueError for a string that spells no time
fromisoformat_raises(value) ==
    IF value.type # "str" THEN "TypeError"
    ELSE IF value.iso \notin Timestamps THEN "ValueError"
    ELSE None

\* Activity.to_dict
to_dict(activity) ==
    [timestamp |-> isoformat(activity.timestamp), platform |-> activity.platform,
     activity_type |-> activity.activity_type, content |-> activity.content,
     raw_data |-> activity.raw_data, activity_id |-> activity.activity_id]

_is_canonical_format(data) ==
    {"timestamp", "platform", "activity_type"} \subseteq DOMAIN data

\* A from_dict that does not read raw_data
from_dict_no_raw_data(data) ==
    [activity_id |-> data.activity_id, platform |-> data.platform,
     activity_type |-> data.activity_type,
     timestamp |-> fromisoformat(data.timestamp),
     content |-> data.content, raw_data |-> "{}"]

\* data.get(key, default)
Get(data, key, default) == IF key \in DOMAIN data THEN data[key] ELSE default

\* hash(self.title or ''): the hash of the empty string is 0; the hash of any
\* other string is what this process's hash seed makes of it
hash(title) == IF title \in {None, ""} THEN 0 ELSE run.hash_seed

\* Activity.__post_init__: f"{platform}_{ts_str}_{hash(title or '')}" when no
\* activity_id is given; the id is kept as the three values it is made of
__post_init__(activity, title) ==
    IF activity.activity_id = None
    THEN [activity EXCEPT !.activity_id =
              <<activity.platform, isoformat(activity.timestamp).iso, hash(title)>>]
    ELSE activity

\* Activity.from_dict
from_dict(data) ==
    __post_init__(
        [activity_id |-> Get(data, "activity_id", None), platform |-> data.platform,
         activity_type |-> data.activity_type,
         timestamp |-> fromisoformat(data.timestamp),
         content |-> Get(data, "content", None),
         raw_data |-> Get(data, "raw_data", "{}")],
        Get(data, "title", None))

\* The JSON null where a time is looked for
NoTime == [type |-> "null", iso |-> 0]

\* data.get("timestamp") or nested.get(field)
timestamp_str(data, nested, field) ==
    IF "timestamp" \in DOMAIN data THEN data.timestamp
    ELSE Get(Get(data, nested, <<>>), field, NoTime)

\* A legacy parser: None without a timestamp or with one that spells no time
\* (ValueError and AttributeError are caught), else the Activity
legacy_activity(data, nested, field, platform, activity_type, title, activity_id) ==
    LET value == timestamp_str(data, nested, field)
    IN  IF value = NoTime THEN NoActivity
        ELSE IF fromisoformat_raises(value) # None THEN NoActivity
        ELSE __post_init__(
                 [activity_id |-> activity_id, platform |-> platform,
                  activity_type |-> activity_type, timestamp |-> fromisoformat(value),
                  content |-> None, raw_data |-> "{}"],
                 title)

\* f"twitter_{data.get('id') or tweet.get('id')}"
tweet_activity_id(data) ==
    LET id == IF "id" \in DOMAIN data THEN data.id
              ELSE Get(Get(data, "tweet", <<>>), "id", None)
    IN  CASE id = "1" -> "twitter_1"
          [] id = "2" -> "twitter_2"
          [] id = None -> "twitter_None"

_parse_legacy_tweet(data) ==
    legacy_activity(data, "tweet", "created_at", "twitter", "create", None,
                    tweet_activity_id(data))

_parse_legacy_podcast_episode(data) ==
    legacy_activity(data, "episode", "publish_date", "podcast", "create",
                    Get(Get(data, "episode", <<>>), "title", None), None)

_parse_legacy_listening_event(data) ==
    legacy_activity(data, "listening", "end_time", "podcast", "consume",
                    Get(Get(data, "episode", <<>>), "title", None), None)

_parse_legacy_blog_post(data) ==
    legacy_activity(data, "post", "publish_date", "blog", "create",
                    Get(Get(data, "post", <<>>), "title", None), None)

_parse_legacy_reading_event(data) ==
    legacy_activity(data, "reading", "end_time", "blog", "consume",
                    Get(Get(data, "post", <<>>), "title", None), None)

\* The if / elif chain of _parse_legacy_activity: the parser it hands to
legacy_matcher(data) ==
    IF "tweet" \in DOMAIN data THEN "tweet"
    ELSE IF "episode" \in DOMAIN data /\ "listening" \notin DOMAIN data THEN "episode"
    ELSE IF "listening" \in DOMAIN data THEN "listening"
    ELSE IF "post" \in DOMAIN data THEN "post"
    ELSE IF "reading" \in DOMAIN data
            \/ ("source_type" \in DOMAIN data /\ Get(data, "source_type", None) = "blog")
    THEN "reading"
    ELSE "none"

_parse_legacy_activity(data) ==
    CASE legacy_matcher(data) = "tweet" -> _parse_legacy_tweet(data)
      [] legacy_matcher(data) = "episode" -> _parse_legacy_podcast_episode(data)
      [] legacy_matcher(data) = "listening" -> _parse_legacy_listening_event(data)
      [] legacy_matcher(data) = "post" -> _parse_legacy_blog_post(data)
      [] legacy_matcher(data) = "reading" -> _parse_legacy_reading_event(data)
      [] legacy_matcher(data) = "none" -> NoActivity

\* The exception _parse_activity lets through: it catches KeyError and
\* ValueError of Activity.from_dict only
_parse_activity_raises(data) ==
    IF _is_canonical_format(data) /\ fromisoformat_raises(data.timestamp) = "TypeError"
    THEN "TypeError"
    ELSE None

\* None for a record of no known shape and for a caught error
_parse_activity(data) ==
    IF _is_canonical_format(data)
    THEN IF fromisoformat_raises(data.timestamp) = None
         THEN from_dict(data)
         ELSE NoActivity
    ELSE _parse_legacy_activity(data)

\* A file is the sequence of its JSON objects: the lines of a .jsonl file, the
\* elements of the array of a .json log, the one object of a .json file.
RECURSIVE ParseAll(_)
ParseAll(items) ==
    IF items = <<>> THEN <<>>
    ELSE LET activity == _parse_activity(Head(items))
         IN  (IF activity # NoActivity THEN <<activity>> ELSE <<>>)
             \o ParseAll(Tail(items))

_load_file(fs, file_path) == ParseAll(fs[file_path].items)

(***************************************************************************)
(* RepoWriter.                                                             *)
(***************************************************************************)
Put(fs, p, content) == [q \in DOMAIN fs \cup {p} |-> IF q = p THEN content ELSE fs[q]]

\* open(file_path, "w"); json.dump(activity.to_dict())
save_activity_file(activity) ==
    LET activity_id == IF activity.activity_id # "" THEN activity.activity_id
                       ELSE "unknown"
    IN  Path("sources", activity.platform, activity.timestamp,
             First8(activity_id), ".json")

save_activity_write(fs, activity) ==
    Put(fs, save_activity_file(activity),
        [kind |-> "object", items |-> <<to_dict(activity)>>])

\* existing = json.load(log) if it exists; existing.append(...); json.dump
append_to_log_write(fs, activity) ==
    LET log_path == Path("sources", activity.platform, 0, "activities", ".json")
        existing == IF log_path \in DOMAIN fs THEN fs[log_path].items ELSE <<>>
    IN  Put(fs, log_path,
            [kind |-> "array", items |-> Append(existing, to_dict(activity))])

\* open(path, "a"); write one line
append_jsonl_write(fs, path, record) ==
    LET existing == IF path \in DOMAIN fs THEN fs[path].items ELSE <<>>
    IN  Put(fs, path, [kind |-> "lines", items |-> Append(existing, record)])

\* The event-log file of the documented layout an activity is appended to:
\* artifacts/{platform} for created content, sources/{platform}s for consumed.
LayoutFile(activity) ==
    IF activity.activity_type = "create"
    THEN get_artifact_file(activity.platform)
    ELSE get_source_file(_artifact_to_source_platform(activity.platform))

\* History kept with every write: the batch written since the last build is
\* followed while a single update_incremental call can still take it.
Follow(activities) ==
    IF since_build.built /\ Len(since_build.activities) + Len(activities) <= MaxBatch
    THEN [since_build EXCEPT !.activities = @ \o activities]
    ELSE [built |-> FALSE, activities |-> <<>>]

NoteWrite(activities) ==
    /\ nwrites' = nwrites + Len(activities)
    /\ written' = written \cup Range(activities)
    /\ last' = [op |-> "write", fresh |-> FALSE]
    /\ since_build' = Follow(activities)
    /\ UNCHANGED <<manifest, platform_index, date_index>>
    /\ UNCHANGED <<enhVars, codecVars, ioVars, lifeVars, parseVars, repoVars>>

save_activity(activity) ==
    /\ nwrites < MaxLog
    /\ files' = save_activity_write(files, activity)
    /\ NoteWrite(<<activity>>)

append_to_log(activity) ==
    /\ nwrites < MaxLog
    /\ files' = append_to_log_write(files, activity)
    /\ NoteWrite(<<activity>>)

append_jsonl(activity) ==
    /\ nwrites < MaxLog
    /\ files' = append_jsonl_write(files, LayoutFile(activity), to_dict(activity))
    /\ NoteWrite(<<activity>>)

\* Sequences over S of length 0..n
RECURSIVE SeqsUpTo(_, _)
SeqsUpTo(S, n) ==
    IF n = 0 THEN {<<>>}
    ELSE LET shorter == SeqsUpTo(S, n - 1)
         IN  shorter \cup {Append(s, x) : s \in shorter, x \in S}

RECURSIVE save_activities_write(_, _)
save_activities_write(fs, activities) ==
    IF activities = <<>> THEN fs
    ELSE save_activities_write(save_activity_write(fs, Head(activities)),
                               Tail(activities))

save_activities(activities) ==
    /\ nwrites + Len(activities) <= MaxLog
    /\ files' = save_activities_write(files, activities)
    /\ NoteWrite(activities)

(***************************************************************************)
(* ManifestManager.                                                        *)
(***************************************************************************)
NoManifest ==
    [exists |-> FALSE, total_activities |-> 0, activities |-> <<>>,
     stats |-> [by_platform |-> <<>>, by_year |-> <<>>, by_type |-> <<>>]]

_determine_source_type(file_path) ==
    IF file_path.root = "sources" THEN "source" ELSE "artifact"

\* the first directory after sources/ or artifacts/
_determine_platform(file_path) == file_path.dir

\* enumerate(reader._load_file(file_path), 1) of one file, with the index
\* entry build makes of each activity
FileEntries(fs, file_path) ==
    LET activities == _load_file(fs, file_path)
    IN  [line_num \in 1..Len(activities) |->
            [activity |-> activities[line_num],
             index |-> [activity_id |-> activities[line_num].activity_id,
                        source_type |-> _determine_source_type(file_path),
                        platform |-> _determine_platform(file_path),
                        activity_type |-> activities[line_num].activity_type,
                        timestamp |-> activities[line_num].timestamp,
                        file_path |-> file_path,
                        line_number |-> line_num]]]

RECURSIVE ScanEntries(_, _)
ScanEntries(fs, paths) ==
    IF paths = <<>> THEN <<>>
    ELSE FileEntries(fs, Head(paths)) \o ScanEntries(fs, Tail(paths))

\* A scan that indexes every record, whatever its activity_id
IndexedAll(scan) == scan

\* "if not activity.activity_id: continue"
RECURSIVE Indexed(_)
Indexed(scan) ==
    IF scan = <<>> THEN <<>>
    ELSE (IF Head(scan).activity.activity_id # "" THEN <<Head(scan)>> ELSE <<>>)
         \o Indexed(Tail(scan))

\* d[key] += 1 over the indexed activities
Counter(keys) ==
    [k \in Range(keys) |-> Cardinality({i \in 1..Len(keys) : keys[i] = k})]

\* manifest.activities[activity.activity_id] = index: the last one stays
LastIndex(scan, activity_id) ==
    LET i == CHOOSE j \in 1..Len(scan) :
                 /\ scan[j].index.activity_id = activity_id
                 /\ \A k \in (j + 1)..Len(scan) : scan[k].index.activity_id # activity_id
    IN  scan[i].index

build_manifest(fs) ==
    LET scan == Indexed(ScanEntries(fs, get_activity_files(fs, None, None)))
        ids == {scan[i].index.activity_id : i \in 1..Len(scan)}
        platforms == [i \in 1..Len(scan) |-> scan[i].index.platform]
        years == [i \in 1..Len(scan) |-> Year(scan[i].activity.timestamp)]
        types == [i \in 1..Len(scan) |-> scan[i].activity.activity_type]
    IN  [exists |-> TRUE,
         total_activities |-> Cardinality(ids),
         activities |-> [activity_id \in ids |-> LastIndex(scan, activity_id)],
         stats |-> [by_platform |-> Counter(platforms),
                    by_year |-> Counter(years),
                    by_type |-> Counter(types)]]

\* by_month[month].append(activity.activity_id)
RECURSIVE IdsOfMonth(_, _)
IdsOfMonth(scan, month) ==
    IF scan = <<>> THEN <<>>
    ELSE (IF Month(Head(scan).activity.timestamp) = month
          THEN <<Head(scan).activity.activity_id>> ELSE <<>>)
         \o IdsOfMonth(Tail(scan), month)

\* _save_date_indexes: one file per month seen, the others are left as they are
_save_date_indexes(old, fs) ==
    LET scan == Indexed(ScanEntries(fs, get_activity_files(fs, None, None)))
        months == {Month(scan[i].activity.timestamp) : i \in 1..Len(scan)}
    IN  [month \in DOMAIN old \cup months |->
            IF month \in months THEN IdsOfMonth(scan, month) ELSE old[month]]

\* _save_platform_indexes: one file per platform of the manifest, the others
\* are left as they are
_save_platform_indexes(old, m) ==
    LET platforms == {m.activities[id].platform : id \in DOMAIN m.activities}
    IN  [platform \in DOMAIN old \cup platforms |->
            IF platform \in platforms
            THEN {id \in DOMAIN m.activities : m.activities[id].platform = platform}
            ELSE old[platform]]

build ==
    /\ manifest' = build_manifest(files)
    /\ date_index' = _save_date_indexes(date_index, files)
    /\ platform_index' = _save_platform_indexes(platform_index, build_manifest(files))
    /\ last' = [op |-> "build", fresh |-> FALSE]
    /\ since_build' = [built |-> TRUE, activities |-> <<>>]
    /\ UNCHANGED <<files, written, nwrites>>
    /\ UNCHANGED <<enhVars, codecVars, ioVars, lifeVars, parseVars, repoVars>>

\* The loop of update_incremental over new_activities
RECURSIVE AddIncremental(_, _)
AddIncremental(entries, new_activities) ==
    IF new_activities = <<>> THEN entries
    ELSE LET activity == Head(new_activities)
             index == [activity_id |-> activity.activity_id,
                       source_type |-> IF activity.activity_type = "create"
                                       THEN "artifact" ELSE "source",
                       platform |-> activity.platform,
                       activity_type |-> activity.activity_type,
                       timestamp |-> activity.timestamp,
                       file_path |-> NoPath,
                       line_number |-> 0]
         IN  IF activity.activity_id = "" \/ activity.activity_id \in DOMAIN entries
             THEN AddIncremental(entries, Tail(new_activities))
             ELSE AddIncremental(
                      [id \in DOMAIN entries \cup {activity.activity_id} |->
                          IF id = activity.activity_id THEN index ELSE entries[id]],
                      Tail(new_activities))

update_incremental_manifest(m, new_activities) ==
    LET entries == AddIncremental(m.activities, new_activities)
        added == Cardinality(DOMAIN entries) - Cardinality(DOMAIN m.activities)
    IN  IF added > 0
        THEN [m EXCEPT !.exists = TRUE,
                       !.activities = entries,
                       !.total_activities = Cardinality(DOMAIN entries)]
        ELSE m

\* The batch is genuinely new when the manifest comes from a full build, the
\* batch is what was appended to the event log since, and none of its ids is
\* in the manifest.
GenuinelyNew(new_activities) ==
    /\ since_build.built
    /\ new_activities # <<>>
    /\ new_activities = since_build.activities
    /\ \A i \in 1..Len(new_activities) :
           new_activities[i].activity_id \notin DOMAIN manifest.activities

update_incremental(new_activities) ==
    /\ manifest' = update_incremental_manifest(manifest, new_activities)
    /\ last' = [op |-> "update_incremental", fresh |-> GenuinelyNew(new_activities)]
    /\ since_build' = [built |-> FALSE, activities |-> <<>>]
    /\ UNCHANGED <<files, written, nwrites, platform_index, date_index>>
    /\ UNCHANGED <<enhVars, codecVars, ioVars, lifeVars, parseVars, repoVars>>

(***************************************************************************)
(* ManifestManager queries.                                                *)
(***************************************************************************)
\* the shard file by_platform/{platform}.json if it exists, else the manifest
get_activities_by_platform(m, pidx, platform) ==
    IF platform \in DOMAIN pidx
    THEN pidx[platform]
    ELSE {id \in DOMAIN m.activities : m.activities[id].platform = platform}

get_activities_by_type(m, activity_type) ==
    {id \in DOMAIN m.activities : m.activities[id].activity_type = activity_type}

get_activities_by_date(m, start_date, end_date) ==
    {id \in DOMAIN m.activities :
        /\ ~(start_date # NoDate /\ m.activities[id].timestamp < start_date)
        /\ ~(end_date # NoDate /\ m.activities[id].timestamp > end_date)}

manifest_query(m, pidx, platform, activity_type, start_date, end_date) ==
    LET all == DOMAIN m.activities
        c1 == IF platform # None
              THEN all \cap get_activities_by_platform(m, pidx, platform) ELSE all
        c2 == IF activity_type # None
              THEN c1 \cap get_activities_by_type(m, activity_type) ELSE c1
    IN  IF start_date # NoDate \/ end_date # NoDate
        THEN c2 \cap get_activities_by_date(m, start_date, end_date) ELSE c2

(***************************************************************************)
(* ActivityLoader.  A query result is the sequence the generator yields.   *)
(***************************************************************************)
RECURSIVE Concat(_, _)
Concat(fs, paths) ==
    IF paths = <<>> THEN <<>>
    ELSE _load_file(fs, Head(paths)) \o Concat(fs, Tail(paths))

_stream_all_activities(fs) == Concat(fs, get_activity_files(fs, None, None))

\* "limit: Optional[int] = None": no limit is given
NoLimit == -1

\* "if limit and count >= limit: break" after each yield; None and 0 are
\* both false
Limit(s, limit) ==
    IF limit = NoLimit \/ limit = 0 \/ Len(s) <= limit THEN s ELSE SubSeq(s, 1, limit)

_query_full_scan(fs, platform, activity_type, start_date, end_date, limit) ==
    LET Keep(activity) ==
            /\ ~(platform # None /\ activity.platform # platform)
            /\ ~(activity_type # None /\ activity.activity_type # activity_type)
            /\ ~(start_date # NoDate /\ activity.timestamp < start_date)
            /\ ~(end_date # NoDate /\ activity.timestamp > end_date)
    IN  Limit(SelectSeq(_stream_all_activities(fs), Keep), limit)

\* The first activity of each id of id_set in the stream (the id is discarded
\* once it is yielded)
RECURSIVE FirstOfEach(_, _)
FirstOfEach(s, id_set) ==
    IF s = <<>> \/ id_set = {} THEN <<>>
    ELSE IF Head(s).activity_id \in id_set
         THEN <<Head(s)>> \o FirstOfEach(Tail(s), id_set \ {Head(s).activity_id})
         ELSE FirstOfEach(Tail(s), id_set)

\* open(file_path) of _load_file on a path that is not there
_load_file_raises(fs, file_path) ==
    IF file_path \in DOMAIN fs THEN None ELSE "FileNotFoundError"

\* "except (json.JSONDecodeError, KeyError, ValueError, OSError): continue"
Caught == {"JSONDecodeError", "KeyError", "ValueError", "OSError", "FileNotFoundError"}

\* "if index and index.file_path"
Hinted(m, activity_id) ==
    /\ m.exists
    /\ activity_id \in DOMAIN m.activities
    /\ m.activities[activity_id].file_path # NoPath

files_to_check(m, activity_ids) ==
    {m.activities[id].file_path : id \in {i \in activity_ids : Hinted(m, i)}}

\* The error that leaves the loop over files_to_check, None if there is none
_load_known_raises(fs, m, activity_ids) ==
    LET raised == {_load_file_raises(fs, file_path) :
                      file_path \in {f \in files_to_check(m, activity_ids) : f \in DOMAIN fs}}
                  \ (Caught \cup {None})
    IN  IF raised = {} THEN None ELSE CHOOSE e \in raised : TRUE

\* "Load from known files": the files the index entries name.
\* files_to_check is visited in path order here; the code visits it in the
\* order of the id list, which is the order of a set.
_load_known(fs, m, activity_ids) ==
    LET IdsOf(file_path) == {id \in activity_ids :
                                Hinted(m, id) /\ m.activities[id].file_path = file_path}
        RECURSIVE FromFiles(_)
        FromFiles(paths) ==
            IF paths = <<>> THEN <<>>
            ELSE LET file_path == Head(paths)
                     InIds(activity) == activity.activity_id \in IdsOf(file_path)
                 IN  (IF file_path \in DOMAIN fs
                      THEN SelectSeq(_load_file(fs, file_path), InIds) ELSE <<>>)
                     \o FromFiles(Tail(paths))
    IN  FromFiles(SortPaths(files_to_check(m, activity_ids)))

\* The known files only, without the scan for the ids still missing
_load_known_only(fs, m, activity_ids) == _load_known(fs, m, activity_ids)

\* Load from the files the index entries name, then a full scan for the ids
\* still missing.
_load_activities_by_ids(fs, m, activity_ids) ==
    LET known == _load_known(fs, m, activity_ids)
        id_set == activity_ids \ {known[i].activity_id : i \in 1..Len(known)}
    IN  known \o FirstOfEach(_stream_all_activities(fs), id_set)

_query_with_manifest(fs, m, pidx, platform, activity_type, start_date, end_date, limit) ==
    Limit(_load_activities_by_ids(
              fs, m, manifest_query(m, pidx, platform, activity_type, start_date, end_date)),
          limit)

loader_query(fs, m, pidx, platform, activity_type, start_date, end_date, limit) ==
    IF m.exists
    THEN _query_with_manifest(fs, m, pidx, platform, activity_type,
                              start_date, end_date, limit)
    ELSE _query_full_scan(fs, platform, activity_type, start_date, end_date, limit)

count(fs, m, pidx, platform, activity_type) ==
    IF m.exists
    THEN IF platform # None /\ activity_type # None
         THEN Cardinality(manifest_query(m, pidx, platform, activity_type, NoDate, NoDate))
         ELSE IF platform # None
         THEN Cardinality(get_activities_by_platform(m, pidx, platform))
         ELSE IF activity_type # None
         THEN Cardinality(get_activities_by_type(m, activity_type))
         ELSE m.total_activities
    ELSE Len(loader_query(fs, m, pidx, platform, activity_type, NoDate, NoDate, NoLimit))

(***************************************************************************)
(* EnhancementStore.  One enhancement kind is a latest.jsonl file and a    *)
(* history/ directory.  The quality score and game signature kinds are     *)
(* modelled; the embedding kind is handled by the same code.               *)
(***************************************************************************)
Kinds == {"quality_scores", "game_signatures"}

QUALITY_ALGORITHM_VERSION == "1.0"
GAME_SIGNATURE_ALGORITHM_VERSION == "1.0"

get_current_algorithm_versions(kind) ==
    IF kind = "quality_scores" THEN QUALITY_ALGORITHM_VERSION
    ELSE GAME_SIGNATURE_ALGORITHM_VERSION

\* EnhancementRecord.to_dict: the kind's payload is left out
Enhancement(activity_id, algorithm_version, computed_at) ==
    [activity_id |-> activity_id, algorithm_version |-> algorithm_version,
     computed_at |-> computed_at]

\* The record lists the scoring passes hand to the store.
RecordBatches ==
    { <<>>,
      <<Enhancement("twitter_1", "0.9", 1)>>,
      <<Enhancement("twitter_1", "1.0", 2)>>,
      <<Enhancement("twitter_2", "1.0", 2)>>,
      <<Enhancement("twitter_1", "1.0", 2), Enhancement("twitter_2", "1.0", 2)>> }

\* datetime.now(), as a day for the archive name and as computed_at
Dates == {1, 2}

Reasons == {"algorithm_update"}

NoFile == [exists |-> FALSE, lines |-> <<>>]
File(lines) == [exists |-> TRUE, lines |-> lines]

\* RepoWriter.write_jsonl(atomic=True): the temp file replaces the path
write_jsonl(records) == File(records)

\* RepoWriter.append_jsonl of each record in turn
RECURSIVE append_all(_, _)
append_all(file, records) ==
    IF records = <<>> THEN file
    ELSE append_all(File(Append(file.lines, Head(records))), Tail(records))

\* save_quality_scores / save_game_signatures / save_embeddings
save_enhancements_file(file, records, append) ==
    IF append THEN append_all(file, records) ELSE write_jsonl(records)

\* result[enhancement.activity_id] = enhancement, line after line
_load_enhancements(file) ==
    LET ids == {file.lines[i].activity_id : i \in 1..Len(file.lines)}
    IN  [id \in ids |->
            file.lines[CHOOSE i \in 1..Len(file.lines) :
                /\ file.lines[i].activity_id = id
                /\ \A j \in (i + 1)..Len(file.lines) : file.lines[j].activity_id # id]]

\* A pass that takes every activity for unprocessed
AllUnprocessed(activities, file) == activities

get_unprocessed_activities(activities, file) ==
    LET existing_ids == DOMAIN _load_enhancements(file)
        Missing(activity) == activity.activity_id \notin existing_ids
    IN  SelectSeq(activities, Missing)

\* History file {date}_v{version}_{reason}.jsonl, or ..._{n}.jsonl for n >= 1
HistoryName(date, version, reason, n) ==
    [date |-> date, version |-> version, reason |-> reason, n |-> n]

\* An archive name that never takes a counter
ArchiveNameNoCounter(hist, lines, reason, date) ==
    HistoryName(date, IF lines # <<>> THEN lines[1].algorithm_version ELSE "unknown",
                reason, 0)

\* The name _archive_enhancement gives the copy: the version of the first
\* record, and the first counter for which no file of that name exists
ArchiveName(hist, lines, reason, date) ==
    LET version == IF lines # <<>> THEN lines[1].algorithm_version ELSE "unknown"
        Taken(n) == HistoryName(date, version, reason, n) \in DOMAIN hist
        counter == CHOOSE n \in 0..Cardinality(DOMAIN hist) :
                       ~Taken(n) /\ \A k \in 0..(n - 1) : Taken(k)
    IN  HistoryName(date, version, reason, counter)

\* shutil.copy2(source_path, archive_path)
_archive_enhancement(hist, lines, reason, date) ==
    LET archive_path == ArchiveName(hist, lines, reason, date)
    IN  [name \in DOMAIN hist \cup {archive_path} |->
            IF name = archive_path THEN lines ELSE hist[name]]

\* A replace that archives nothing
ReplaceOnly(hist, file, reason, date) == hist

\* "if latest_path.exists(): self._archive_enhancement(...)"
save_with_history_history(hist, file, reason, date) ==
    IF file.exists THEN _archive_enhancement(hist, file.lines, reason, date) ELSE hist

\* A check that also takes an empty latest file for stale
StaleWhenEmpty(file, kind) ==
    \/ ~file.exists
    \/ file.lines = <<>>
    \/ file.lines[1].algorithm_version # get_current_algorithm_versions(kind)

\* needs_recompute: the version of the first record against the current one
needs_recompute(file, kind) ==
    IF ~file.exists THEN TRUE
    ELSE IF file.lines # <<>>
    THEN file.lines[1].algorithm_version # get_current_algorithm_versions(kind)
    ELSE FALSE

\* Order of the history file names as strings
VersionRank(version) ==
    CASE version = "0.9" -> 0 [] version = "1.0" -> 1 [] OTHER -> 2

NameKey(name) == <<name.date, VersionRank(name.version), StrRank(name.reason), name.n>>

\* sorted(files, reverse=True)
RECURSIVE list_history(_)
list_history(names) ==
    IF names = {} THEN <<>>
    ELSE LET m == CHOOSE x \in names :
                      \A y \in names \ {x} : LexLess(NameKey(y), NameKey(x))
         IN  <<m>> \o list_history(names \ {m})

LatestSource == HistoryName(0, "latest", "", 0)

\* The records of one file for one activity, tagged with their source
Tagged(lines, activity_id, source) ==
    LET Mine(enh) == enh.activity_id = activity_id
        mine == SelectSeq(lines, Mine)
    IN  [i \in 1..Len(mine) |-> [enh |-> mine[i], source |-> source]]

\* timeline.sort(key=computed_at, reverse=True): a stable sort
RECURSIVE InsertByComputedAt(_, _)
InsertByComputedAt(sorted, x) ==
    IF sorted = <<>> THEN <<x>>
    ELSE IF Head(sorted).enh.computed_at >= x.enh.computed_at
         THEN <<Head(sorted)>> \o InsertByComputedAt(Tail(sorted), x)
         ELSE <<x>> \o sorted

RECURSIVE SortTimeline(_, _)
SortTimeline(sorted, rest) ==
    IF rest = <<>> THEN sorted
    ELSE SortTimeline(InsertByComputedAt(sorted, Head(rest)), Tail(rest))

get_enhancement_timeline(file, hist, activity_id) ==
    LET RECURSIVE FromHistory(_)
        FromHistory(names) ==
            IF names = <<>> THEN <<>>
            ELSE Tagged(hist[Head(names)], activity_id, Head(names))
                 \o FromHistory(Tail(names))
        timeline == (IF file.exists THEN Tagged(file.lines, activity_id, LatestSource)
                     ELSE <<>>)
                    \o FromHistory(list_history(DOMAIN hist))
    IN  SortTimeline(<<>>, timeline)

(***************************************************************************)
(* The enhancement pipeline of core/profile.py.                            *)
(***************************************************************************)
\* activities.sort(key=timestamp): a stable sort
RECURSIVE InsertByTimestamp(_, _)
InsertByTimestamp(sorted, x) ==
    IF sorted = <<>> THEN <<x>>
    ELSE IF Head(sorted).timestamp <= x.timestamp
         THEN <<Head(sorted)>> \o InsertByTimestamp(Tail(sorted), x)
         ELSE <<x>> \o sorted

RECURSIVE SortByTimestamp(_, _)
SortByTimestamp(sorted, rest) ==
    IF rest = <<>> THEN sorted
    ELSE SortByTimestamp(InsertByTimestamp(sorted, Head(rest)), Tail(rest))

\* RepoReader.load_activities
load_activities(fs, platform, activity_type) ==
    SortByTimestamp(<<>>, Concat(fs, get_activity_files(fs, platform, activity_type)))

\* GameAnalyzer.compute_enhancements: one record for each activity that has
\* an id and some text
RECURSIVE game_compute_enhancements(_, _)
game_compute_enhancements(activities, computed_at) ==
    IF activities = <<>> THEN <<>>
    ELSE (IF Head(activities).activity_id # "" /\ Head(activities).content # ""
          THEN <<Enhancement(Head(activities).activity_id,
                             GAME_SIGNATURE_ALGORITHM_VERSION, computed_at)>>
          ELSE <<>>)
         \o game_compute_enhancements(Tail(activities), computed_at)

clear_enhancements_files(lat, enhancement_type) ==
    [kind \in Kinds |->
        IF enhancement_type = None \/ enhancement_type = kind THEN NoFile ELSE lat[kind]]

\* compute_and_store_enhancements.  QualityAnalyzer has no compute_enhancements
\* method: the call raises AttributeError as soon as an activity lacks a quality
\* score, and the function stops there, after the clear of a forced run.
compute_and_store_enhancements_files(lat, fs, force_recompute, now) ==
    LET activities == load_activities(fs, None, None)
        cleared == IF force_recompute THEN clear_enhancements_files(lat, None) ELSE lat
        missing_quality == get_unprocessed_activities(activities, cleared["quality_scores"])
        missing_games == get_unprocessed_activities(activities, cleared["game_signatures"])
        game_enhancements == game_compute_enhancements(missing_games, now)
    IN  IF missing_quality # <<>> THEN cleared
        ELSE IF game_enhancements # <<>>
        THEN [cleared EXCEPT !["game_signatures"] =
                 save_enhancements_file(@, game_enhancements, ~force_recompute)]
        ELSE cleared

(***************************************************************************)
(* The enhancement store as a state machine.                               *)
(***************************************************************************)
\* The game signature file is the one the pipeline appends to
NoteEnh(op, kind, new) ==
    /\ nops' = nops + 1
    /\ enh_last' = [op |-> op, kind |-> kind,
                    old |-> IF kind \in Kinds THEN latest[kind]
                            ELSE IF op = "compute_missing" THEN latest["game_signatures"]
                            ELSE NoFile,
                    new |-> new]
    /\ UNCHANGED <<logVars, codecVars, ioVars, lifeVars, parseVars, repoVars>>

save_enhancements(kind, records, append) ==
    /\ nops < MaxEnhOps
    /\ latest' = [latest EXCEPT ![kind] = save_enhancements_file(@, records, append)]
    /\ NoteEnh(IF append THEN "save_append" ELSE "save_overwrite", kind, records)
    /\ UNCHANGED <<history, archived>>

clear_enhancements(enhancement_type) ==
    /\ nops < MaxEnhOps
    /\ latest' = clear_enhancements_files(latest, enhancement_type)
    /\ NoteEnh("clear_enhancements", enhancement_type, <<>>)
    /\ UNCHANGED <<history, archived>>

save_with_history(kind, records, archive_reason, today) ==
    /\ nops < MaxEnhOps
    /\ history' = [history EXCEPT ![kind] =
                      save_with_history_history(@, latest[kind], archive_reason, today)]
    /\ latest' = [latest EXCEPT ![kind] = save_enhancements_file(@, records, FALSE)]
    /\ archived' = IF latest[kind].exists
                   THEN Append(archived,
                               [kind |-> kind, lines |-> latest[kind].lines,
                                name |-> ArchiveName(history[kind], latest[kind].lines,
                                                     archive_reason, today)])
                   ELSE archived
    /\ NoteEnh("save_with_history", kind, records)

compute_and_store_enhancements(force_recompute, now) ==
    /\ nops < MaxEnhOps
    /\ latest' = compute_and_store_enhancements_files(latest, files, force_recompute, now)
    /\ NoteEnh(IF force_recompute THEN "compute_forced" ELSE "compute_missing",
               None, <<>>)
    /\ UNCHANGED <<history, archived>>

(***************************************************************************)
(* One .jsonl file, line by line.  A line is the JSON value it spells, or   *)
(* text that is no JSON; the last line may lack its newline.               *)
(***************************************************************************)
NoData == [content |-> None]

Line(json, data, terminated) == [json |-> json, data |-> data, terminated |-> terminated]

\* A canonical record whose timestamp is a number, one whose timestamp spells
\* no time, and an object of no known shape
WrongTypeRecord ==
    [to_dict(CHOOSE a \in Activities : a.activity_id = "twitter_1")
        EXCEPT !.timestamp = [type |-> "int", iso |-> 3]]

BadTimeRecord ==
    [to_dict(CHOOSE a \in Activities : a.activity_id = "twitter_1")
        EXCEPT !.timestamp = [type |-> "str", iso |-> -1]]

UnknownShapeRecord == [content |-> "hello"]

MalformedLines ==
    { Line("invalid", NoData, TRUE),            \* not JSON
      Line("number", NoData, TRUE),             \* JSON, not an object: 42
      Line("array", NoData, TRUE),              \* JSON, not an object: [1, 2]
      Line("object", WrongTypeRecord, TRUE),
      Line("object", BadTimeRecord, TRUE),
      Line("object", UnknownShapeRecord, TRUE) }

\* One line of the loop of _load_file over a .jsonl file: an activity, a line
\* that is skipped, or an exception that the loop does not catch.
\*   - text that is no JSON: json.loads raises JSONDecodeError, caught;
\*   - a number: "field in data" of _is_canonical_format raises TypeError;
\*   - an array: no field is in it, no legacy key either, the parse is None;
\*   - an object: _parse_activity.
_load_line(line) ==
    CASE line.json = "invalid" ->
             [result |-> "skip", activity |-> NoActivity, error |-> None]
      [] line.json = "number" ->
             [result |-> "raise", activity |-> NoActivity, error |-> "TypeError"]
      [] line.json = "array" ->
             [result |-> "skip", activity |-> NoActivity, error |-> None]
      [] line.json = "object" ->
             IF _parse_activity_raises(line.data) # None
             THEN [result |-> "raise", activity |-> NoActivity,
                   error |-> _parse_activity_raises(line.data)]
             ELSE IF _parse_activity(line.data) = NoActivity
             THEN [result |-> "skip", activity |-> NoActivity, error |-> None]
             ELSE [result |-> "activity", activity |-> _parse_activity(line.data),
                   error |-> None]

NotLoaded == [done |-> FALSE, raised |-> None, activities |-> <<>>]

\* _load_file of the .jsonl file: the activities, or the exception of the
\* first line that raises one
RECURSIVE _load_jsonl(_, _)
_load_jsonl(lines, activities) ==
    IF lines = <<>> THEN [done |-> TRUE, raised |-> None, activities |-> activities]
    ELSE LET outcome == _load_line(Head(lines))
         IN  IF outcome.result = "raise"
             THEN [done |-> TRUE, raised |-> outcome.error, activities |-> <<>>]
             ELSE _load_jsonl(Tail(lines),
                              IF outcome.result = "activity"
                              THEN Append(activities, outcome.activity)
                              ELSE activities)

\* open(path, "a"); f.write(json.dumps(record) + "\n"): the text lands after
\* the last byte of the file, on the last line when that has no newline
append_jsonl_text(lines, record) ==
    IF lines # <<>> /\ ~lines[Len(lines)].terminated
    THEN [lines EXCEPT ![Len(lines)] = Line("invalid", NoData, TRUE)]
    ELSE Append(lines, Line("object", record, TRUE))

\* The same write cut short: a part of the record, without its newline
append_jsonl_partial(lines) ==
    IF lines # <<>> /\ ~lines[Len(lines)].terminated
    THEN lines
    ELSE Append(lines, Line("invalid", NoData, FALSE))

NotRestored == [activity |-> NoActivity, from_dict |-> NoActivity, parsed |-> NoActivity]

InitCodec ==
    /\ jsonl = <<>>
    /\ appended = <<>>
    /\ foreign = FALSE
    /\ loaded = NotLoaded
    /\ restored = NotRestored

append_jsonl_line(activity) ==
    /\ Len(jsonl) < MaxLines
    /\ jsonl' = append_jsonl_text(jsonl, to_dict(activity))
    /\ appended' = Append(appended, activity)
    /\ loaded' = NotLoaded
    /\ UNCHANGED <<foreign, restored, logVars, enhVars, ioVars, lifeVars, parseVars, repoVars>>

append_jsonl_crash ==
    /\ Len(jsonl) < MaxLines
    /\ jsonl' = append_jsonl_partial(jsonl)
    /\ loaded' = NotLoaded
    /\ UNCHANGED <<appended, foreign, restored, logVars, enhVars, ioVars, lifeVars, parseVars, repoVars>>

\* A line that another tool, or an edit by hand, left in the file
write_malformed(line) ==
    /\ Len(jsonl) < MaxLines
    /\ jsonl # <<>> => jsonl[Len(jsonl)].terminated
    /\ jsonl' = Append(jsonl, line)
    /\ foreign' = TRUE
    /\ loaded' = NotLoaded
    /\ UNCHANGED <<appended, restored, logVars, enhVars, ioVars, lifeVars, parseVars, repoVars>>

load_file ==
    /\ ~loaded.done
    /\ loaded' = _load_jsonl(jsonl, <<>>)
    /\ UNCHANGED <<jsonl, appended, foreign, restored, logVars, enhVars, ioVars, lifeVars, parseVars, repoVars>>

round_trip(activity) ==
    /\ restored' = [activity |-> activity,
                    from_dict |-> from_dict(to_dict(activity)),
                    parsed |-> _parse_activity(to_dict(activity))]
    /\ UNCHANGED <<jsonl, appended, foreign, loaded, logVars, enhVars, ioVars, lifeVars, parseVars, repoVars>>

(***************************************************************************)
(* File writes step by step, with a reader beside the writer.              *)
(* RepoWriter.write_jsonl(atomic=True) writes a temp file and renames it   *)
(* over latest.jsonl; ManifestManager._save_manifest opens manifest.json   *)
(* with mode "w" and dumps into it.  A file name leads to an inode, and a  *)
(* reader keeps the inode it opened.                                       *)
(***************************************************************************)
NoInode == 0

\* atomic=False: write_jsonl writes into the file itself
write_jsonl_in_place == FALSE

\* "atomic: bool = True", the default every caller of write_jsonl takes
write_jsonl_atomic == TRUE

Absent == [exists |-> FALSE, lines |-> <<>>]

\* What a name holds now
Content(d, ino) == IF ino = NoInode THEN Absent ELSE File(d.data[ino])

\* tempfile.mkstemp(dir=path.parent): a new, empty file
mkstemp(d) ==
    [d EXCEPT !.temp = Len(d.data) + 1, !.data = Append(d.data, <<>>)]

\* open(path, "w"): the file of that name, emptied, or a new one
open_w(d) ==
    IF d.latest = NoInode
    THEN [d EXCEPT !.latest = Len(d.data) + 1, !.data = Append(d.data, <<>>)]
    ELSE [d EXCEPT !.data[d.latest] = <<>>]

\* The file write_jsonl writes the records to
Target(d) == IF d.temp # NoInode THEN d.temp ELSE d.latest

\* f.write(json.dumps(record.to_dict()) + "\n")
write_line(d, record) == [d EXCEPT !.data[Target(d)] = Append(@, record)]

\* os.replace(temp_path, path)
os_replace(d) == [d EXCEPT !.latest = d.temp, !.temp = NoInode]

\* A handler that leaves the temp file where it is
keep_temp(d) == d

\* "except Exception: if os.path.exists(temp_path): os.unlink(temp_path)"
unlink_temp(d) == [d EXCEPT !.temp = NoInode]

Idle == [pc |-> "idle", op |-> None, records |-> <<>>, written |-> 0,
         before |-> Absent, error |-> None, calls |-> 0]

NoRead == [pc |-> "idle", target |-> None, ino |-> NoInode, old |-> Absent,
           result |-> Absent, error |-> None]

\* The manifests build and update_incremental persist, as JSON documents
ManifestDocs == {"manifest 1", "manifest 2"}

NoDoc == [exists |-> FALSE, lines |-> <<>>]
Doc(doc) == [exists |-> TRUE, lines |-> <<doc>>]

InitIO ==
    /\ disk = [latest |-> NoInode, temp |-> NoInode, data |-> <<>>]
    /\ mfile = [exists |-> FALSE, doc |-> None, part |-> "whole"]
    /\ wr = Idle
    /\ rd = NoRead
    /\ committed = [latest |-> Absent, manifest |-> NoDoc]

\* write_jsonl up to the first write: mkdir, then mkstemp or open(path, "w")
write_jsonl_begin(records) ==
    /\ wr.pc \in {"idle", "raised"}
    /\ wr.calls < MaxCalls
    /\ disk' = IF write_jsonl_atomic THEN mkstemp(disk) ELSE open_w(disk)
    /\ wr' = [pc |-> "writing", op |-> "write_jsonl", records |-> records,
              written |-> 0, before |-> Content(disk, disk.latest), error |-> None,
              calls |-> wr.calls + 1]
    /\ UNCHANGED <<mfile, rd, committed, logVars, enhVars, codecVars, lifeVars, parseVars, repoVars>>

write_jsonl_write ==
    /\ wr.pc = "writing" /\ wr.op = "write_jsonl"
    /\ wr.written < Len(wr.records)
    /\ disk' = write_line(disk, wr.records[wr.written + 1])
    /\ wr' = [wr EXCEPT !.written = @ + 1]
    /\ UNCHANGED <<mfile, rd, committed, logVars, enhVars, codecVars, lifeVars, parseVars, repoVars>>

\* The records are written: close the file, and rename it if it is the temp
write_jsonl_replace ==
    /\ wr.pc = "writing" /\ wr.op = "write_jsonl"
    /\ wr.written = Len(wr.records)
    /\ disk' = IF write_jsonl_atomic THEN os_replace(disk) ELSE disk
    /\ wr' = [wr EXCEPT !.pc = "idle"]
    /\ committed' = [committed EXCEPT !.latest = File(wr.records)]
    /\ UNCHANGED <<mfile, rd, logVars, enhVars, codecVars, lifeVars, parseVars, repoVars>>

\* An error of a write or of the rename: the handler of the atomic branch
\* removes the temp file, and the error goes to the caller
write_jsonl_error ==
    /\ wr.pc = "writing" /\ wr.op = "write_jsonl"
    /\ disk' = IF write_jsonl_atomic THEN unlink_temp(disk) ELSE disk
    /\ wr' = [wr EXCEPT !.pc = "raised", !.error = "OSError"]
    /\ UNCHANGED <<mfile, rd, committed, logVars, enhVars, codecVars, lifeVars, parseVars, repoVars>>

\* _save_manifest: open(manifest_path, "w") empties the file
_save_manifest_open(doc) ==
    /\ wr.pc \in {"idle", "raised"}
    /\ wr.calls < MaxCalls
    /\ mfile' = [exists |-> TRUE, doc |-> doc, part |-> "empty"]
    /\ wr' = [pc |-> "writing", op |-> "_save_manifest", records |-> <<doc>>,
              written |-> 0, before |-> committed.manifest, error |-> None,
              calls |-> wr.calls + 1]
    /\ UNCHANGED <<disk, rd, committed, logVars, enhVars, codecVars, lifeVars, parseVars, repoVars>>

\* json.dump: a part of the document reaches the file, then the rest
_save_manifest_dump ==
    /\ wr.pc = "writing" /\ wr.op = "_save_manifest"
    /\ mfile' = [mfile EXCEPT !.part = IF @ = "empty" THEN "partial" ELSE "whole"]
    /\ wr' = IF mfile.part = "partial" THEN [wr EXCEPT !.pc = "idle"] ELSE wr
    /\ committed' = IF mfile.part = "partial"
                    THEN [committed EXCEPT !.manifest = Doc(mfile.doc)]
                    ELSE committed
    /\ UNCHANGED <<disk, rd, logVars, enhVars, codecVars, lifeVars, parseVars, repoVars>>

\* An error of json.dump: nothing handles it, the file stays as it is
_save_manifest_error ==
    /\ wr.pc = "writing" /\ wr.op = "_save_manifest"
    /\ wr' = [wr EXCEPT !.pc = "raised", !.error = "OSError"]
    /\ UNCHANGED <<disk, mfile, rd, committed, logVars, enhVars, codecVars, lifeVars, parseVars, repoVars>>

\* _load_enhancements: "if not path.exists(): return {}", else open(path)
_load_enhancements_open ==
    /\ rd.pc \in {"idle", "done"}
    /\ rd' = IF disk.latest = NoInode
             THEN [pc |-> "done", target |-> "latest", ino |-> NoInode,
                   old |-> committed.latest, result |-> Absent, error |-> None]
             ELSE [pc |-> "reading", target |-> "latest", ino |-> disk.latest,
                   old |-> committed.latest, result |-> Absent, error |-> None]
    /\ UNCHANGED <<disk, mfile, wr, committed, logVars, enhVars, codecVars, lifeVars, parseVars, repoVars>>

\* "for line in f": the lines of the file that was opened
_load_enhancements_read ==
    /\ rd.pc = "reading"
    /\ rd' = [rd EXCEPT !.pc = "done", !.result = Content(disk, rd.ino)]
    /\ UNCHANGED <<disk, mfile, wr, committed, logVars, enhVars, codecVars, lifeVars, parseVars, repoVars>>

\* ManifestManager.load: Manifest() if the file does not exist, else
\* json.load, which raises JSONDecodeError on a part of a document
load ==
    /\ rd.pc \in {"idle", "done"}
    /\ rd' = [pc |-> "done", target |-> "manifest", ino |-> NoInode,
              old |-> committed.manifest,
              result |-> IF mfile.exists /\ mfile.part = "whole"
                         THEN Doc(mfile.doc) ELSE NoDoc,
              error |-> IF mfile.exists /\ mfile.part # "whole"
                        THEN "JSONDecodeError" ELSE None]
    /\ UNCHANGED <<disk, mfile, wr, committed, logVars, enhVars, codecVars, lifeVars, parseVars, repoVars>>

(***************************************************************************)
(* LifecycleStateMachine.  phase_progress is kept in thousandths: 1000 is  *)
(* the 1.0 that can_advance compares with.                                 *)
(***************************************************************************)
PHASES == <<"rookie", "developing", "established", "veteran", "legend">>

ACTIVITY_THRESHOLDS ==
    [rookie |-> 10, developing |-> 50, established |-> 200, veteran |-> 500]

DAY_THRESHOLDS ==
    [rookie |-> 30, developing |-> 90, established |-> 365, veteran |-> 1095]

\* self.PHASES.index(current)
phase_index(current) == CHOOSE idx \in 1..Len(PHASES) : PHASES[idx] = current

_get_next_phase(current) ==
    IF phase_index(current) < Len(PHASES) THEN PHASES[phase_index(current) + 1] ELSE None

\* self.ACTIVITY_THRESHOLDS.get(phase, 0)
threshold_get(thresholds, phase) ==
    IF phase \in DOMAIN thresholds THEN thresholds[phase] ELSE 0

LifecycleState(phase, phase_progress, days_in_phase, activities_in_phase,
               next_phase, activities_to_next) ==
    [phase |-> phase, phase_progress |-> phase_progress,
     days_in_phase |-> days_in_phase, activities_in_phase |-> activities_in_phase,
     next_phase |-> next_phase, activities_to_next |-> activities_to_next]

_determine_phase(days, activities) ==
    IF days >= DAY_THRESHOLDS["veteran"] \/ activities >= ACTIVITY_THRESHOLDS["veteran"]
    THEN "legend"
    ELSE IF days >= DAY_THRESHOLDS["established"]
            \/ activities >= ACTIVITY_THRESHOLDS["established"]
    THEN "veteran"
    ELSE IF days >= DAY_THRESHOLDS["developing"]
            \/ activities >= ACTIVITY_THRESHOLDS["developing"]
    THEN "established"
    ELSE IF days >= DAY_THRESHOLDS["rookie"] \/ activities >= ACTIVITY_THRESHOLDS["rookie"]
    THEN "developing"
    ELSE "rookie"

Max2(a, b) == IF a >= b THEN a ELSE b
Min2(a, b) == IF a <= b THEN a ELSE b

\* (progress in thousandths, activities needed for the next phase)
_calculate_progress(phase, days, activities) ==
    IF phase = "legend" THEN <<1000, 0>>
    ELSE LET day_threshold == DAY_THRESHOLDS[phase]
             activity_threshold == ACTIVITY_THRESHOLDS[phase]
             prev_day_threshold ==
                 IF phase_index(phase) > 1 THEN DAY_THRESHOLDS[PHASES[phase_index(phase) - 1]] ELSE 0
             prev_activity_threshold ==
                 IF phase_index(phase) > 1 THEN ACTIVITY_THRESHOLDS[PHASES[phase_index(phase) - 1]] ELSE 0
             day_progress ==
                 Min2(1000, ((days - prev_day_threshold) * 1000)
                               \div Max2(1, day_threshold - prev_day_threshold))
             activity_progress ==
                 Min2(1000, ((activities - prev_activity_threshold) * 1000)
                               \div Max2(1, activity_threshold - prev_activity_threshold))
         IN  <<Max2(day_progress, activity_progress),
               Max2(0, activity_threshold - activities)>>

\* compute, from the days since the first activity and the number of
\* activities; days_in_phase and activities_in_phase come from the clock and
\* are left at 0
lifecycle_compute(days_active, total_activities) ==
    IF total_activities = 0
    THEN LifecycleState("rookie", 0, 0, 0, "developing", ACTIVITY_THRESHOLDS["rookie"])
    ELSE LET phase == _determine_phase(days_active, total_activities)
             progress == _calculate_progress(phase, days_active, total_activities)
         IN  LifecycleState(phase, progress[1], 0, 0, _get_next_phase(phase), progress[2])

\* A state that advances whatever its progress is
can_advance_any_progress(st) == st.next_phase # None

can_advance(st) == st.phase_progress >= 1000 /\ st.next_phase # None

advance_state(st) ==
    IF ~can_advance(st) THEN st
    ELSE LET next_phase == st.next_phase
         IN  IF next_phase = None THEN st
             ELSE LifecycleState(next_phase, 0, 0, 0, _get_next_phase(next_phase),
                                 threshold_get(ACTIVITY_THRESHOLDS, next_phase))

\* The days and the activity counts compute is followed on: each threshold
\* and the values beside it
DaysActive == {0, 29, 30, 89, 90, 365, 1095}
TotalActivities == {0, 1, 9, 10, 50, 200, 500}

\* The progress a caller gives a state it makes itself
Progresses == {0, 500, 1000}

InitLife ==
    /\ state = lifecycle_compute(0, 0)
    /\ given = lifecycle_compute(0, 0)
    /\ trail = <<"rookie">>

\* compute(activities, platforms, metrics)
compute(days_active, total_activities) ==
    /\ state' = lifecycle_compute(days_active, total_activities)
    /\ given' = state'
    /\ trail' = <<state'.phase>>
    /\ UNCHANGED <<logVars, enhVars, codecVars, ioVars, parseVars, repoVars>>

\* A caller makes a LifecycleState of a phase with a progress, next_phase being
\* the phase after it or left at its default None
make_state(phase, phase_progress, next_phase) ==
    /\ next_phase \in {_get_next_phase(phase), None}
    /\ state' = LifecycleState(phase, phase_progress, 0, 0, next_phase, 0)
    /\ given' = state'
    /\ trail' = <<phase>>
    /\ UNCHANGED <<logVars, enhVars, codecVars, ioVars, parseVars, repoVars>>

advance ==
    /\ Len(trail) <= MaxAdvance
    /\ state' = advance_state(state)
    /\ given' = state
    /\ trail' = Append(trail, state'.phase)
    /\ UNCHANGED <<logVars, enhVars, codecVars, ioVars, parseVars, repoVars>>

(***************************************************************************)
(* One persisted record, parsed again and again, in one process and in the *)
(* next.                                                                   *)
(***************************************************************************)
\* What hash() gives for a string that is not empty, in the processes followed
HashSeeds == {1, 2}

Time(ts) == [type |-> "str", iso |-> ts]

\* Canonical records
CanonicalRecords ==
    { to_dict(CHOOSE a \in Activities : a.activity_id = "twitter_1"),
      \* no activity_id, a title
      [timestamp |-> Time(1), platform |-> "podcast", activity_type |-> "consume",
       title |-> "talk"],
      \* no activity_id, no title
      [timestamp |-> Time(1), platform |-> "podcast", activity_type |-> "consume"],
      \* the three keys and a legacy key, with a time and without one
      [timestamp |-> Time(2), platform |-> "blog", activity_type |-> "create",
       activity_id |-> "blog_1", tweet |-> [id |-> "1"]],
      [timestamp |-> Time(-1), platform |-> "blog", activity_type |-> "create",
       activity_id |-> "blog_1", tweet |-> [id |-> "1"]],
      WrongTypeRecord,
      BadTimeRecord }

\* Records of the legacy shapes, and of none
LegacyRecords ==
    { [id |-> "1", timestamp |-> Time(3), tweet |-> [id |-> "1"]],
      [tweet |-> [id |-> "2", created_at |-> Time(3)]],
      [tweet |-> [id |-> "1"], post |-> [title |-> "talk"], timestamp |-> Time(2)],
      [episode |-> [title |-> "talk", publish_date |-> Time(1)]],
      [episode |-> [title |-> ""], timestamp |-> Time(1)],
      [episode |-> [title |-> "talk"], listening |-> [end_time |-> Time(2)]],
      [listening |-> [end_time |-> Time(2)]],
      [listening |-> [end_time |-> Time(-1)]],
      [post |-> [title |-> "talk", publish_date |-> Time(2)]],
      [post |-> [title |-> "talk"], reading |-> [end_time |-> Time(2)]],
      [reading |-> [end_time |-> Time(1)], post |-> [title |-> "talk"]]
          @@ [timestamp |-> Time(1)],
      [reading |-> [end_time |-> Time(1)]],
      [source_type |-> "blog", timestamp |-> Time(1)],
      [source_type |-> "podcast", timestamp |-> Time(1)],
      UnknownShapeRecord }

PersistedRecords == CanonicalRecords \cup LegacyRecords

\* _parse_activity of the record in the process that runs: the Activity, None,
\* or the exception that leaves it, with the parser that was handed the record
parse_outcome(data) ==
    LET parser == IF _is_canonical_format(data) THEN "canonical"
                  ELSE legacy_matcher(data)
    IN  IF _parse_activity_raises(data) # None
        THEN [result |-> "raise", parser |-> parser, error |-> _parse_activity_raises(data),
              activity_id |-> None, platform |-> None, activity_type |-> None]
        ELSE LET activity == _parse_activity(data)
             IN  IF activity.platform = None
                 THEN [result |-> "null", parser |-> parser, error |-> None,
                       activity_id |-> None, platform |-> None, activity_type |-> None]
                 ELSE [result |-> "activity", parser |-> parser, error |-> None,
                       activity_id |-> activity.activity_id,
                       platform |-> activity.platform,
                       activity_type |-> activity.activity_type]

NotParsed ==
    [result |-> "null", parser |-> "none", error |-> None,
     activity_id |-> None, platform |-> None, activity_type |-> None]

InitParse ==
    /\ run = [hash_seed |-> 1]
    /\ persisted = UnknownShapeRecord
    /\ parsed = NotParsed
    /\ seen = <<>>

\* A record is persisted and loaded for the first time
parse(data) ==
    /\ persisted' = data
    /\ parsed' = parse_outcome(data)
    /\ seen' = <<parse_outcome(data)>>
    /\ UNCHANGED <<run, logVars, enhVars, codecVars, ioVars, lifeVars, repoVars>>

\* The same record is loaded again
parse_again ==
    /\ seen # <<>>
    /\ Len(seen) < MaxParses
    /\ parsed' = parse_outcome(persisted)
    /\ seen' = Append(seen, parse_outcome(persisted))
    /\ UNCHANGED <<run, persisted, logVars, enhVars, codecVars, ioVars, lifeVars, repoVars>>

\* The process ends and another one starts, with its own hash seed
new_process(hash_seed) ==
    /\ run' = [hash_seed |-> hash_seed]
    /\ UNCHANGED <<persisted, parsed, seen, logVars, enhVars, codecVars, ioVars, lifeVars, repoVars>>

(***************************************************************************)
(* The repository layout: what is at the repository path, init_repo,       *)
(* validate, and the construction of the data-lake components on the path. *)
(* The tree holds one entry per group of paths the code makes together:    *)
(* "sources" stands for sources/ and its platform directories, "artifacts" *)
(* for artifacts/ and its platform and enhancement directories, ".gitkeep" *)
(* for the .gitkeep files of all of them.                                  *)
(***************************************************************************)
Paths ==
    {".", ".gitkeep", ".metaspn", ".metaspn/config.json", ".metaspn/profile.json",
     "artifacts", "artifacts/indexes", "artifacts/indexes/manifest.json",
     "meta.json", "reports", "sources", "sources/twitter/activity.json"}

\* Path.exists, Path.is_dir, Path.is_file
exists(layout, p) == layout[p] # "absent"
is_dir(layout, p) == layout[p] = "dir"
is_file(layout, p) == exists(layout, p) /\ ~is_dir(layout, p)

\* Path.mkdir(parents=True, exist_ok=True) of the directories dirs, and
\* open(p, "w") with what is written
mkdir(layout, dirs) == [p \in Paths |-> IF p \in dirs THEN "dir" ELSE layout[p]]
open_write(layout, p, content) == [layout EXCEPT ![p] = content]

REQUIRED_DIRS == {".", ".metaspn", "sources", "artifacts", "artifacts/indexes", "reports"}
REQUIRED_FILES == {".metaspn/profile.json"}
LEGACY_PROFILE == "meta.json"

is_legacy_layout(layout) == exists(layout, LEGACY_PROFILE)

profile_path(layout) ==
    IF is_legacy_layout(layout) THEN LEGACY_PROFILE ELSE ".metaspn/profile.json"

create_structure(layout) == mkdir(layout, REQUIRED_DIRS)

_validate_legacy(layout) ==
    /\ is_file(layout, LEGACY_PROFILE)
    /\ is_dir(layout, "sources") \/ is_dir(layout, "artifacts")

validate(layout) ==
    IF is_legacy_layout(layout) THEN _validate_legacy(layout)
    ELSE /\ is_dir(layout, ".metaspn")
         /\ \A file_path \in REQUIRED_FILES : is_file(layout, file_path)
         /\ is_dir(layout, "sources") \/ is_dir(layout, "artifacts")

validate_repo(layout) == exists(layout, ".") /\ validate(layout)

\* The user_info dictionaries init_repo is called with
UserInfos ==
    {[user_id |-> "u", name |-> "n"], [user_id |-> "v", name |-> "n"],
     [user_id |-> "u"], [name |-> "n"], [handle |-> "@h"]}

\* What init_repo raises and the tree it leaves
Returned(layout) == [raised |-> None, tree |-> layout]
Raised(error, layout) == [raised |-> error, tree |-> layout]

\* init_repo with the check for an existing repository left out
init_repo_no_exists_check(layout, user_info) ==
    IF "user_id" \notin DOMAIN user_info THEN Raised("ValueError", layout)
    ELSE IF "name" \notin DOMAIN user_info THEN Raised("ValueError", layout)
    ELSE LET made == create_structure(layout)
             profile == open_write(made, profile_path(made), user_info.user_id)
             config == open_write(profile, ".metaspn/config.json", "config")
         IN  Returned(open_write(config, ".gitkeep", "gitkeep"))

init_repo_run(layout, user_info) ==
    IF "user_id" \notin DOMAIN user_info THEN Raised("ValueError", layout)
    ELSE IF "name" \notin DOMAIN user_info THEN Raised("ValueError", layout)
    ELSE IF exists(layout, ".metaspn") THEN Raised("FileExistsError", layout)
    ELSE LET made == create_structure(layout)
             profile == open_write(made, profile_path(made), user_info.user_id)
             config == open_write(profile, ".metaspn/config.json", "config")
         IN  Returned(open_write(config, ".gitkeep", "gitkeep"))

\* The data-lake components, and whether the constructor of one calls validate
Components ==
    {"RepoReader", "RepoWriter", "ManifestManager", "EnhancementStore", "ActivityLoader"}

validates(component) ==
    CASE component = "RepoReader" -> TRUE
      [] component = "RepoWriter" -> TRUE
      [] component = "ManifestManager" -> FALSE
      [] component = "EnhancementStore" -> TRUE    \* through the RepoWriter it builds
      [] component = "ActivityLoader" -> TRUE

\* The path as the caller finds it: absent, an empty directory, or a
\* repository of the legacy layout
NoTree == [p \in Paths |-> "absent"]
EmptyDir == mkdir(NoTree, {"."})
LegacyRepo == open_write(mkdir(NoTree, {".", "sources"}), LEGACY_PROFILE, "legacy")
StartTrees == {NoTree, EmptyDir, LegacyRepo}

Called(op, component, keys, raised) ==
    [op |-> op, component |-> component, keys |-> keys, raised |-> raised,
     before |-> tree]

InitRepo ==
    /\ tree = NoTree
    /\ components = {}
    /\ call = [op |-> "none", component |-> None, keys |-> {}, raised |-> None,
               before |-> NoTree]

init_repo(user_info) ==
    LET outcome == init_repo_run(tree, user_info) IN
    /\ tree' = outcome.tree
    /\ call' = Called("init_repo", None, DOMAIN user_info, outcome.raised)
    /\ UNCHANGED <<components, logVars, enhVars, codecVars, ioVars, lifeVars, parseVars>>

\* Component(repo_path)
__init__(component) ==
    /\ IF validates(component) /\ ~validate(tree)
       THEN /\ call' = Called("__init__", component, {}, "ValueError")
            /\ UNCHANGED components
       ELSE /\ call' = Called("__init__", component, {}, None)
            /\ components' = components \cup {component}
    /\ UNCHANGED <<tree, logVars, enhVars, codecVars, ioVars, lifeVars, parseVars>>

\* RepoWriter.save_activity
RepoWriter_save_activity ==
    /\ "RepoWriter" \in components
    /\ tree' = open_write(mkdir(tree, {".", "sources"}),
                          "sources/twitter/activity.json", "activity")
    /\ call' = Called("save_activity", "RepoWriter", {}, None)
    /\ UNCHANGED <<components, logVars, enhVars, codecVars, ioVars, lifeVars, parseVars>>

_save_manifest(layout, content) ==
    open_write(mkdir(layout, {".", "artifacts", "artifacts/indexes"}),
               "artifacts/indexes/manifest.json", content)

\* ManifestManager.build
ManifestManager_build(force) ==
    /\ "ManifestManager" \in components
    /\ IF ~force /\ exists(tree, "artifacts/indexes/manifest.json")
       THEN /\ call' = Called("build", "ManifestManager", {}, None)
            /\ UNCHANGED tree
       ELSE IF ~validate(tree)
       THEN /\ call' = Called("build", "ManifestManager", {}, "ValueError")
            /\ UNCHANGED tree
       ELSE /\ call' = Called("build", "ManifestManager", {}, None)
            /\ tree' = _save_manifest(tree, "scanned")
    /\ UNCHANGED <<components, logVars, enhVars, codecVars, ioVars, lifeVars, parseVars>>

\* ManifestManager.update_incremental with activities the manifest has not
\* (added > 0) or with none (added = 0)
ManifestManager_update_incremental(added) ==
    /\ "ManifestManager" \in components
    /\ tree' = IF added > 0 THEN _save_manifest(tree, "added") ELSE tree
    /\ call' = Called("update_incremental", "ManifestManager", {}, None)
    /\ UNCHANGED <<components, logVars, enhVars, codecVars, ioVars, lifeVars, parseVars>>

(***************************************************************************)
(* The event log and its manifest as a state machine.                      *)
(***************************************************************************)
Batches == SeqsUpTo(Activities, MaxBatch)

InitEnh ==
    /\ latest = [kind \in Kinds |-> NoFile]
    /\ history = [kind \in Kinds |-> <<>>]
    /\ enh_last = [op |-> "init", kind |-> None, old |-> NoFile, new |-> <<>>]
    /\ archived = <<>>
    /\ nops = 0

Init ==
    /\ InitEnh
    /\ InitCodec
    /\ InitIO
    /\ InitLife
    /\ InitParse
    /\ InitRepo
    /\ files = <<>>
    /\ manifest = NoManifest
    /\ platform_index = <<>>
    /\ date_index = <<>>
    /\ written = {}
    /\ nwrites = 0
    /\ last = [op |-> "init", fresh |-> FALSE]
    /\ since_build = [built |-> FALSE, activities |-> <<>>]

Next ==
    \/ \E activity \in Activities : save_activity(activity)
    \/ \E activities \in Batches : save_activities(activities)
    \/ \E activity \in Activities : append_to_log(activity)
    \/ \E activity \in Activities : append_jsonl(activity)
    \/ build
    \/ \E new_activities \in Batches : update_incremental(new_activities)

Spec == Init /\ [][Next]_vars

\* The enhancement store over a repository that holds two tweets.
TwoTweets ==
    LET t1 == CHOOSE a \in Activities : a.activity_id = "twitter_1"
        t2 == CHOOSE a \in Activities : a.activity_id = "twitter_2"
    IN  append_jsonl_write(append_jsonl_write(<<>>, LayoutFile(t1), to_dict(t1)),
                           LayoutFile(t2), to_dict(t2))

InitStore ==
    /\ InitEnh
    /\ InitCodec
    /\ InitIO
    /\ InitLife
    /\ InitParse
    /\ InitRepo
    /\ files = TwoTweets
    /\ manifest = NoManifest
    /\ platform_index = <<>>
    /\ date_index = <<>>
    /\ written = {}
    /\ nwrites = 0
    /\ last = [op |-> "init", fresh |-> FALSE]
    /\ since_build = [built |-> FALSE, activities |-> <<>>]

NextStore ==
    \/ \E kind \in Kinds, records \in RecordBatches, append \in BOOLEAN :
           save_enhancements(kind, records, append)
    \/ \E enhancement_type \in Kinds \cup {None} : clear_enhancements(enhancement_type)
    \/ \E kind \in Kinds, records \in RecordBatches, reason \in Reasons, today \in Dates :
           save_with_history(kind, records, reason, today)
    \/ \E force_recompute \in BOOLEAN, now \in Dates :
           compute_and_store_enhancements(force_recompute, now)

SpecStore == InitStore /\ [][NextStore]_vars

\* One .jsonl file under appends, crashes and foreign lines, and its reader.
NextCodec ==
    \/ \E activity \in Activities : append_jsonl_line(activity)
    \/ append_jsonl_crash
    \/ \E line \in MalformedLines : write_malformed(line)
    \/ load_file
    \/ \E activity \in Activities : round_trip(activity)

SpecCodec == Init /\ [][NextCodec]_vars

\* A file of the event log is removed from outside (the case
\* "if not full_path.exists(): continue" of the loader is there for)
unlink(file_path) ==
    /\ file_path \in DOMAIN files
    /\ files' = [q \in DOMAIN files \ {file_path} |-> files[q]]
    /\ last' = [op |-> "unlink", fresh |-> FALSE]
    /\ UNCHANGED <<manifest, platform_index, date_index, written, nwrites, since_build>>
    /\ UNCHANGED <<enhVars, codecVars, ioVars, lifeVars, parseVars, repoVars>>

\* The event log of a repository that holds two tweets, with files that go
\* away under the manifest.
NextStale ==
    \/ \E activity \in Activities : save_activity(activity)
    \/ \E activity \in Activities : append_to_log(activity)
    \/ build
    \/ \E file_path \in DOMAIN files : unlink(file_path)

SpecStale == InitStore /\ [][NextStale]_vars

\* Persisted records parsed in one process after the other.
NextParse ==
    \/ \E data \in PersistedRecords : parse(data)
    \/ parse_again
    \/ \E hash_seed \in HashSeeds : new_process(hash_seed)

SpecParse == Init /\ [][NextParse]_vars

\* Lifecycle states that are computed or made, and advanced.
NextLife ==
    \/ \E days_active \in DaysActive, total_activities \in TotalActivities :
           compute(days_active, total_activities)
    \/ \E phase \in Range(PHASES), phase_progress \in Progresses,
           next_phase \in Range(PHASES) \cup {None} :
           make_state(phase, phase_progress, next_phase)
    \/ advance

SpecLife == Init /\ [][NextLife]_vars

\* A writer and a reader of latest.jsonl and of manifest.json, step by step.
NextIO ==
    \/ \E records \in RecordBatches : write_jsonl_begin(records)
    \/ write_jsonl_write
    \/ write_jsonl_replace
    \/ write_jsonl_error
    \/ \E doc \in ManifestDocs : _save_manifest_open(doc)
    \/ _save_manifest_dump
    \/ _save_manifest_error
    \/ _load_enhancements_open
    \/ _load_enhancements_read
    \/ load

SpecIO == Init /\ [][NextIO]_vars

\* The repository path, from the tree the caller finds there.
InitPath ==
    /\ InitEnh
    /\ InitCodec
    /\ InitIO
    /\ InitLife
    /\ InitParse
    /\ tree \in StartTrees
    /\ components = {}
    /\ call = [op |-> "none", component |-> None, keys |-> {}, raised |-> None,
               before |-> tree]
    /\ files = <<>>
    /\ manifest = NoManifest
    /\ platform_index = <<>>
    /\ date_index = <<>>
    /\ written = {}
    /\ nwrites = 0
    /\ last = [op |-> "init", fresh |-> FALSE]
    /\ since_build = [built |-> FALSE, activities |-> <<>>]

NextRepo ==
    \/ \E user_info \in UserInfos : init_repo(user_info)
    \/ \E component \in Components : __init__(component)
    \/ RepoWriter_save_activity
    \/ \E force \in BOOLEAN : ManifestManager_build(force)
    \/ \E added \in 0..1 : ManifestManager_update_incremental(added)

SpecRepo == InitPath /\ [][NextRepo]_vars


(***************************************************************************)
(* Properties of the event log, the manifest and the loader.               *)
(***************************************************************************)
AnyPlatform == Platforms \cup {None}
AnyType == ActivityTypes \cup {None}
AnyDate == Timestamps \cup {NoDate}

Ids(activities) == {activities[i].activity_id : i \in 1..Len(activities)}

\* C1: every activity record a RepoWriter write operation wrote is still in
\* the event log, unchanged, after any later write operations.
C1_AppendOnly ==
    \A activity \in written :
        \E p \in DOMAIN files :
            \E i \in 1..Len(files[p].items) : files[p].items[i] = to_dict(activity)

\* C2: after build(force=True), manifest.total_activities is the number of
\* activities an unfiltered full scan of the event log yields.
C2_TotalIsFullScanCount ==
    last.op = "build" =>
        manifest.total_activities
            = Len(_query_full_scan(files, None, None, NoDate, NoDate, NoLimit))

C4_IncrementalIsRebuild ==
    last.fresh =>
        LET rebuilt == build_manifest(files)
            shards == _save_platform_indexes(platform_index, rebuilt)
        IN  \A platform \in AnyPlatform, activity_type \in AnyType,
               start_date \in AnyDate, end_date \in AnyDate :
                manifest_query(manifest, platform_index, platform, activity_type,
                               start_date, end_date)
                    = manifest_query(rebuilt, shards, platform, activity_type,
                                     start_date, end_date)

\* C5: with a manifest that was just rebuilt, a query by platform and
\* activity_type yields the same set of activities through the manifest as a
\* full scan of the event log yields.
C5_ManifestPathIsFullScan ==
    last.op = "build" =>
        \A platform \in AnyPlatform, activity_type \in AnyType :
            Range(_query_with_manifest(files, manifest, platform_index, platform,
                                       activity_type, NoDate, NoDate, NoLimit))
                = Range(_query_full_scan(files, platform, activity_type,
                                         NoDate, NoDate, NoLimit))

\* C6: count(platform, activity_type) is the number of event-log activities
\* whose platform and activity_type match, with a manifest that was just built
\* and with no manifest.
C6_CountIsMatching ==
    (last.op = "build" \/ ~manifest.exists) =>
        \A platform \in AnyPlatform, activity_type \in AnyType :
            LET Matches(activity) ==
                    /\ platform # None => activity.platform = platform
                    /\ activity_type # None => activity.activity_type = activity_type
            IN  count(files, manifest, platform_index, platform, activity_type)
                    = Len(SelectSeq(_stream_all_activities(files), Matches))

\* C7: with no manifest, query yields its results in non-decreasing timestamp
\* order, whatever the filters.
C7_FullScanSorted ==
    ~manifest.exists =>
        \A platform \in AnyPlatform, activity_type \in AnyType :
            LET result == loader_query(files, manifest, platform_index, platform,
                                       activity_type, NoDate, NoDate, NoLimit)
            IN  \A i, j \in 1..Len(result) :
                    i < j => result[i].timestamp <= result[j].timestamp


(***************************************************************************)
(* Properties of the enhancement store.                                    *)
(***************************************************************************)
\* The records get_enhancement_timeline returns for one activity, by source
TimelineOf(kind, activity_id) ==
    Range(get_enhancement_timeline(latest[kind], history[kind], activity_id))

\* C8: after save_with_history(kind, newRecords), the timeline of every id
\* that the old latest file held contains the record the old latest held for
\* it, read from a history file, and the record newRecords holds for it, read
\* from latest.
C8_TimelineHasOldAndNew ==
    enh_last.op = "save_with_history" =>
        LET before == _load_enhancements(enh_last.old)
            after == _load_enhancements(File(enh_last.new))
            kind == enh_last.kind
        IN  \A id \in DOMAIN before :
                /\ \E entry \in TimelineOf(kind, id) :
                       entry.enh = before[id] /\ entry.source # LatestSource
                /\ id \in DOMAIN after =>
                       [enh |-> after[id], source |-> LatestSource] \in TimelineOf(kind, id)

\* save_with_history replaced a record of the old latest by a different one.
C8_Witness ==
    /\ enh_last.op = "save_with_history"
    /\ enh_last.old.exists
    /\ LET before == _load_enhancements(enh_last.old)
           after == _load_enhancements(File(enh_last.new))
       IN  \E id \in DOMAIN before \cap DOMAIN after : before[id] # after[id]

\* C9: after any sequence of save_with_history calls, the content of every
\* latest file a call replaced is, unchanged, in a history file of its own:
\* the copies have pairwise different names, and each name still holds the
\* lines that were copied to it.
C9_NoDataLoss ==
    /\ \A i \in 1..Len(archived) :
           /\ archived[i].name \in DOMAIN history[archived[i].kind]
           /\ history[archived[i].kind][archived[i].name] = archived[i].lines
    /\ \A i, j \in 1..Len(archived) :
           (i < j /\ archived[i].kind = archived[j].kind)
               => archived[i].name # archived[j].name

\* Two latest files of one kind with different contents were archived on the
\* same day under the same version and reason: the second name has a suffix.
C9_Witness ==
    \E i, j \in 1..Len(archived) :
        /\ i < j
        /\ archived[i].kind = archived[j].kind
        /\ archived[i].lines # archived[j].lines
        /\ archived[i].name.n = 0
        /\ archived[j].name = [archived[i].name EXCEPT !.n = 1]

StoredVersion(file) ==
    IF file.exists /\ file.lines # <<>> THEN file.lines[1].algorithm_version ELSE None

Stamped(records, version) ==
    \A i \in 1..Len(records) : records[i].algorithm_version = version

\* C11: needs_recompute(kind) is true exactly when latest is missing or the
\* version stored in latest differs from the current one; when it differs, a
\* save_with_history step with records stamped with the current version adds
\* exactly one history file, named with the old version and holding the old
\* latest, leaves latest stamped with the current version, and
\* needs_recompute(kind) is false afterwards.
C11_VersionBump ==
    [][\A kind \in Kinds :
          LET current == get_current_algorithm_versions(kind)
              old == StoredVersion(latest[kind])
              added == DOMAIN history'[kind] \ DOMAIN history[kind]
          IN  /\ needs_recompute(latest'[kind], kind)
                    = (~latest'[kind].exists
                        \/ (StoredVersion(latest'[kind]) # None
                             /\ StoredVersion(latest'[kind]) # current))
              /\ (/\ enh_last'.op = "save_with_history"
                  /\ enh_last'.kind = kind
                  /\ old # None /\ old # current
                  /\ Stamped(enh_last'.new, current))
                 => /\ needs_recompute(latest[kind], kind)
                    /\ Cardinality(added) = 1
                    /\ \A name \in added :
                           /\ name.version = old
                           /\ history'[kind][name] = latest[kind].lines
                    /\ latest'[kind].exists
                    /\ Stamped(latest'[kind].lines, current)
                    /\ ~needs_recompute(latest'[kind], kind)]_vars

\* save_with_history replaced a latest file stored at an old version by
\* records of the current version.
C11_Witness ==
    /\ enh_last.op = "save_with_history"
    /\ StoredVersion(enh_last.old) = "0.9"
    /\ enh_last.new # <<>>
    /\ Stamped(enh_last.new, get_current_algorithm_versions(enh_last.kind))
    /\ ~needs_recompute(latest[enh_last.kind], enh_last.kind)


\* C12: whatever saves ran, loading a kind maps each activity_id of its latest
\* file to one record, the one written last, and the timeline of an activity
\* has at most one record whose source is latest.
C12_OneLatestPerActivity ==
    \A kind \in Kinds :
        LET lines == latest[kind].lines
            by_id == _load_enhancements(latest[kind])
        IN  \A id \in Ids(lines) :
                LET timeline == get_enhancement_timeline(latest[kind], history[kind], id)
                IN  /\ id \in DOMAIN by_id
                    /\ \E i \in 1..Len(lines) :
                           /\ lines[i] = by_id[id]
                           /\ \A j \in (i + 1)..Len(lines) : lines[j].activity_id # id
                    /\ Cardinality({i \in 1..Len(timeline) :
                                       timeline[i].source = LatestSource}) <= 1


IsActivityLine(line) ==
    line.json = "object" /\ \E a \in Activities : line.data = to_dict(a)

\* C14: _load_file of a .jsonl file with valid and malformed lines in any
\* order raises nothing and returns one activity for each valid line, in the
\* order of the lines.
C14_LoadSkipsMalformed ==
    loaded.done =>
        LET valid == SelectSeq(jsonl, IsActivityLine)
        IN  /\ loaded.raised = None
            /\ Len(loaded.activities) = Len(valid)
            /\ \A i \in 1..Len(valid) : to_dict(loaded.activities[i]) = valid[i].data

C19_PartialLineTolerated ==
    (loaded.done /\ ~foreign) =>
        /\ loaded.raised = None
        /\ loaded.activities = appended


(***************************************************************************)
(* Properties of the file writes.                                          *)
(***************************************************************************)
\* C16: when an error occurs while write_jsonl(atomic=True) is writing, the
\* error reaches the caller, the temp file is gone, and latest.jsonl holds
\* exactly what it held before the call.
C16_AtomicWriteAllOrNothing ==
    (wr.pc = "raised" /\ wr.op = "write_jsonl") =>
        /\ wr.error # None
        /\ disk.temp = NoInode
        /\ Content(disk, disk.latest) = wr.before

\* write_jsonl failed after writing a record, over a file with other content.
C16_Witness ==
    /\ wr.pc = "raised" /\ wr.op = "write_jsonl"
    /\ wr.written > 0
    /\ wr.before.exists
    /\ wr.before.lines # wr.records
    /\ Content(disk, disk.latest) = wr.before

\* C17: a reader of latest.jsonl gets the complete content the file had when
\* the reader opened it or the complete content a write gave it since, never a
\* part of one or a mix.
C17_ReaderSeesOldOrNew ==
    (rd.pc = "done" /\ rd.target = "latest") =>
        /\ rd.error = None
        /\ rd.result \in {rd.old, committed.latest}

\* The file was replaced between the reader's open and its read, and the
\* reader got the old content.
C17_Witness ==
    /\ rd.pc = "done" /\ rd.target = "latest"
    /\ rd.old.exists
    /\ rd.old.lines # <<>>
    /\ committed.latest # rd.old
    /\ rd.result = rd.old

\* C18: a load of manifest.json, while _save_manifest is writing or after it
\* failed midway, gets the whole previous manifest or the whole new one and
\* raises nothing.
C18_ManifestPersistAtomic ==
    (rd.pc = "done" /\ rd.target = "manifest") =>
        /\ rd.error = None
        /\ rd.result \in {rd.old, committed.manifest}

(***************************************************************************)
(* Properties of the loader under a stale manifest.                        *)
(***************************************************************************)
\* The file the entry of the id names is missing or does not hold the id
Stale(activity_id) ==
    /\ Hinted(manifest, activity_id)
    /\ LET file_path == manifest.activities[activity_id].file_path
       IN  \/ file_path \notin DOMAIN files
           \/ \A i \in 1..Len(_load_file(files, file_path)) :
                 _load_file(files, file_path)[i].activity_id # activity_id

InScan(activity_id) ==
    \E i \in 1..Len(_stream_all_activities(files)) :
        _stream_all_activities(files)[i].activity_id = activity_id

Requested == {a.activity_id : a \in Activities}

Yielded(activity_ids) ==
    LET result == _load_activities_by_ids(files, manifest, activity_ids)
    IN  {result[i].activity_id : i \in 1..Len(result)}

\* C20: for every set of requested ids, _load_activities_by_ids raises
\* nothing; an id whose entry is stale is yielded exactly when the full scan
\* of the event log finds it; and every requested id whose entry names a file
\* that holds it is yielded.
C20_StaleEntryIsCacheMiss ==
    \A activity_ids \in SUBSET Requested :
        /\ _load_known_raises(files, manifest, activity_ids) = None
        /\ \A id \in activity_ids :
              /\ Stale(id) => (id \in Yielded(activity_ids) <=> InScan(id))
              /\ (Hinted(manifest, id) /\ ~Stale(id)) => id \in Yielded(activity_ids)

\* The file the entry of twitter_1 names was removed, the scan finds twitter_1
\* in another file, and twitter_2 is served from the file its entry names.
C20_Witness ==
    /\ Stale("twitter_1")
    /\ manifest.activities["twitter_1"].file_path \notin DOMAIN files
    /\ InScan("twitter_1")
    /\ Hinted(manifest, "twitter_2") /\ ~Stale("twitter_2")
    /\ Yielded({"twitter_1", "twitter_2"}) = {"twitter_1", "twitter_2"}

(***************************************************************************)
(* Properties of RepoReader.load_activities.                               *)
(***************************************************************************)
\* How many times the activity is in the sequence
Occurrences(s, activity) == Cardinality({i \in 1..Len(s) : s[i] = activity})

\* C24: an activity save_activity has just written is in the result of an
\* unfiltered load_activities() on the same repository.
C24_SavedIsLoaded ==
    [][\A activity \in Activities :
          save_activity(activity) =>
              Occurrences(load_activities(files', None, None), activity) > 0]_vars

\* C25: load_activities(platform=p, activity_type=t) returns exactly the
\* activities of the unfiltered load_activities() whose platform is p and
\* whose activity_type is t, each as many times.
C25_FilteredIsSelection ==
    \A p \in Platforms, t \in ActivityTypes, activity \in Activities :
        Occurrences(load_activities(files, p, t), activity)
            = IF activity.platform = p /\ activity.activity_type = t
              THEN Occurrences(load_activities(files, None, None), activity)
              ELSE 0

(***************************************************************************)
(* Properties of the manifest's counters and shards.                       *)
(***************************************************************************)
\* The sum of the counts of a counter
RECURSIVE SumOf(_, _)
SumOf(counter, keys) ==
    IF keys = {} THEN 0
    ELSE LET k == CHOOSE x \in keys : TRUE
         IN  counter[k] + SumOf(counter, keys \ {k})

Total(counter) == SumOf(counter, DOMAIN counter)

\* C26: the counters of the manifest agree with its entries: total_activities
\* is the number of entries, and the by_platform, by_type and by_year counts
\* each sum to that number.
C26_CountersAgree ==
    manifest.exists =>
        /\ manifest.total_activities = Cardinality(DOMAIN manifest.activities)
        /\ Total(manifest.stats.by_platform) = Cardinality(DOMAIN manifest.activities)
        /\ Total(manifest.stats.by_type) = Cardinality(DOMAIN manifest.activities)
        /\ Total(manifest.stats.by_year) = Cardinality(DOMAIN manifest.activities)

\* C27: for every platform, get_activities_by_platform returns exactly the ids
\* of the entries of the master manifest whose platform it is.
C27_ShardsFollowMaster ==
    manifest.exists =>
        \A platform \in Platforms :
            get_activities_by_platform(manifest, platform_index, platform)
                = {id \in DOMAIN manifest.activities :
                      manifest.activities[id].platform = platform}

(***************************************************************************)
(* Properties of the limit of ActivityLoader.query.                        *)
(***************************************************************************)
Min(a, b) == IF a <= b THEN a ELSE b

\* The number of activities query yields when no limit is given
Matching(platform, activity_type) ==
    Len(loader_query(files, manifest, platform_index, platform, activity_type,
                     NoDate, NoDate, NoLimit))

\* C29: for every limit n >= 0 and every filter combination, query(limit=n)
\* yields exactly min(n, number of matching activities) activities, with a
\* manifest and without one.
C29_LimitIsMaximum ==
    \A platform \in AnyPlatform, activity_type \in AnyType, n \in 0..MaxLimit :
        Len(loader_query(files, manifest, platform_index, platform, activity_type,
                         NoDate, NoDate, n))
            = Min(n, Matching(platform, activity_type))


(***************************************************************************)
(* Properties of the lifecycle.                                            *)
(***************************************************************************)
\* The place of a phase in the order rookie .. legend
Order(phase) ==
    CASE phase = "rookie" -> 1 [] phase = "developing" -> 2
      [] phase = "established" -> 3 [] phase = "veteran" -> 4 [] phase = "legend" -> 5

Matchers == <<"tweet", "episode", "listening", "post", "reading">>

Matches(matcher, data) ==
    CASE matcher = "tweet" -> "tweet" \in DOMAIN data
      [] matcher = "episode" -> "episode" \in DOMAIN data /\ "listening" \notin DOMAIN data
      [] matcher = "listening" -> "listening" \in DOMAIN data
      [] matcher = "post" -> "post" \in DOMAIN data
      [] matcher = "reading" ->
             \/ "reading" \in DOMAIN data
             \/ ("source_type" \in DOMAIN data /\ data["source_type"] = "blog")

FirstMatch(data) ==
    IF \E i \in 1..Len(Matchers) : Matches(Matchers[i], data)
    THEN Matchers[CHOOSE i \in 1..Len(Matchers) :
                      /\ Matches(Matchers[i], data)
                      /\ \A j \in 1..(i - 1) : ~Matches(Matchers[j], data)]
    ELSE "none"

\* The platform and the activity_type of the activities a legacy parser makes
MadeBy(matcher) ==
    CASE matcher = "tweet" -> <<"twitter", "create">>
      [] matcher = "episode" -> <<"podcast", "create">>
      [] matcher = "listening" -> <<"podcast", "consume">>
      [] matcher = "post" -> <<"blog", "create">>
      [] matcher = "reading" -> <<"blog", "consume">>

\* A record with the three keys goes to the canonical parser only
CanonicalOnly ==
    /\ parsed.parser = "canonical"
    /\ parsed.result = "activity" =>
          <<parsed.platform, parsed.activity_type>>
              = <<persisted.platform, persisted.activity_type>>

\* Any other record goes to the first legacy matcher that matches
FirstLegacyMatcher ==
    /\ parsed.parser = FirstMatch(persisted)
    /\ parsed.result # "raise"
    /\ FirstMatch(persisted) = "none" => parsed.result = "null"
    /\ parsed.result = "activity" =>
          <<parsed.platform, parsed.activity_type>> = MadeBy(FirstMatch(persisted))

\* C28: a record that has the keys timestamp, platform and activity_type is
\* parsed only as canonical, and a failed canonical parse gives null; any other
\* record is handed to the first matching legacy matcher in the order tweet,
\* episode (without listening), listening, post, reading / source_type = blog;
\* a record matching none gives null.
C28_CodecDispatch ==
    seen # <<>> =>
        IF {"timestamp", "platform", "activity_type"} \subseteq DOMAIN persisted
        THEN CanonicalOnly /\ parsed.result \in {"activity", "null"}
        ELSE FirstLegacyMatcher

\* C30: every parse of the same persisted record, in the same process and in
\* another one, gives the same activity_id.
C30_GeneratedIdDeterministic ==
    \A i, j \in 1..Len(seen) : seen[i].activity_id = seen[j].activity_id


\* C21: a data-lake component constructed on a path that is not a valid
\* repository layout raises at construction, so that no operation of a
\* component runs there and nothing is created or modified under the path:
\* a construction on an invalid layout raises ValueError, and a call on a
\* component that found an invalid layout leaves the tree as it was.
C21_InvalidLayoutRaisesAtConstruction ==
    /\ (call.op = "__init__" /\ ~validate(call.before)) => call.raised = "ValueError"
    /\ (call.component \in Components /\ ~validate(call.before)) => tree = call.before

\* C22: init_repo raises ValueError when user_info lacks user_id or name and
\* FileExistsError when .metaspn is already at the path; a call that raised
\* left the tree as it was; and validate_repo turns true in a successful
\* init_repo, and in no other call.
C22_InitRepoFailsClean ==
    /\ call.op = "init_repo" =>
         /\ ~({"user_id", "name"} \subseteq call.keys) => call.raised = "ValueError"
         /\ ({"user_id", "name"} \subseteq call.keys /\ exists(call.before, ".metaspn"))
                => call.raised = "FileExistsError"
         /\ call.raised # None => tree = call.before
         /\ call.raised = None => validate_repo(tree)
    /\ (validate_repo(tree) /\ ~validate_repo(call.before))
           => (call.op = "init_repo" /\ call.raised = None)

\* init_repo was called again on the repository a first call made, after a
\* ManifestManager wrote its manifest there, and raised FileExistsError
C22_Witness ==
    /\ call.op = "init_repo"
    /\ call.raised = "FileExistsError"
    /\ validate_repo(tree)
    /\ tree["artifacts/indexes/manifest.json"] = "added"

=============================================================================
